---- MODULE Spec2Model ----
(***************************************************************************)
(* Customer-Dashboard-app: the client-side record filtering, sorting and   *)
(* aggregation of the Orders dashboard (route component Order) and of the  *)
(* Customers dashboard (route component Customer).                         *)
(*                                                                         *)
(* Strings are sequences of one-character strings, so that toLowerCase,    *)
(* includes, template literals, parseInt and parseFloat are computed the   *)
(* way JavaScript computes them.  An optional (nullable) field is <<>>     *)
(* when absent and <<v>> when present.  Time is counted in ticks, DayTicks *)
(* ticks to the day.                                                       *)
(***************************************************************************)
EXTENDS Integers, Sequences, FiniteSets

VARIABLES
    route,                 \* the route whose loader has returned
    mounted,               \* whether its component has rendered
    orders,                \* Order: useLoaderData().orders
    queryValue,            \* Order: useState("")
    statusFilter,          \* Order: useState([])
    dateFilter,            \* Order: useState("")
    productFilter,         \* Order: useState("")
    sortSelected,          \* Order: useState(['date desc'])
    filteredOrders,        \* Order: useMemo value shown in the table
    stats,                 \* Order: useMemo value shown in the cards
    customers,             \* Customer: useLoaderData().customers
    custQueryValue,        \* Customer: queryValue
    tagFilter,             \* Customer: useState("")
    countryFilter,         \* Customer: useState("")
    itemsOrderCount,       \* Customer: useState("")
    lastOrderDateFilter,   \* Customer: useState("")
    custSortSelected,      \* Customer: sortSelected
    filteredCustomers,     \* Customer: useMemo value shown in the table
    cards,                 \* Customer: the summary cards
    healthPc,              \* StoreHealth loader: where the loader stands
    healthData,            \* StoreHealth loader: data of response.json()
    healthNow,             \* StoreHealth loader: new Date()
    healthLocals,          \* StoreHealth loader: its local constants
    healthResult,          \* StoreHealth loader: its return value
    loaderPc,              \* Orders / Customers loader: where it stands
    loaderData,            \* Orders / Customers loader: its return value
    response,              \* a loader's admin.graphql(...) and its JSON body
    csvContent,            \* Customer: content of the downloaded CSV blob
    products,              \* Product: useLoaderData()
    selectedProduct,       \* Product: useState(null)
    active,                \* Product: useState(false)
    openedProduct,         \* Product: argument of the latest handleOpenModal
    profilePc,             \* ProfilePage: where fetchProfile stands
    profile,               \* ProfilePage: useState(null)
    loading,               \* ProfilePage: useState(true)
    errorMsg               \* ProfilePage: useState(null)

vars == <<route, mounted, orders, queryValue, statusFilter, dateFilter, productFilter,
          sortSelected, filteredOrders, stats, customers, custQueryValue,
          tagFilter, countryFilter, itemsOrderCount, lastOrderDateFilter,
          custSortSelected, filteredCustomers, cards, healthPc, healthData,
          healthNow, healthLocals, healthResult, loaderPc, loaderData,
          response, csvContent, products, selectedProduct, active,
          openedProduct, profilePc, profile, loading, errorMsg>>

productVars == <<products, selectedProduct, active, openedProduct>>

profileVars == <<profilePc, profile, loading, errorMsg>>

loaderVars == <<loaderPc, loaderData, response>>

healthVars == <<healthPc, healthData, healthNow, healthLocals, healthResult>>

orderVars == <<orders, queryValue, statusFilter, dateFilter, productFilter,
               sortSelected, filteredOrders, stats>>

customerVars == <<customers, custQueryValue, tagFilter, countryFilter,
                  itemsOrderCount, lastOrderDateFilter, custSortSelected,
                  filteredCustomers, cards>>

----------------------------------------------------------------------------
(* Bounds *)

MaxBatch == 3          \* records in a fetched batch of the dashboards
MaxStatsBatch == 10    \* orders in a batch of the metrics specification

----------------------------------------------------------------------------
(* JavaScript strings *)

\* The characters of the model in increasing UTF-16 code unit order.
Ascii ==
    <<"\n", " ", "\"", "#", "+", ",", "-", ".", "0", "1", "2", "3", "4", "5", "6", "7", "8", "9", "@",
      "A", "B", "C", "D", "E", "F", "G", "H", "I", "J", "K", "L", "M",
      "N", "O", "P", "Q", "R", "S", "T", "U", "V", "W", "X", "Y", "Z", "_",
      "a", "b", "c", "d", "e", "f", "g", "h", "i", "j", "k", "l", "m",
      "n", "o", "p", "q", "r", "s", "t", "u", "v", "w", "x", "y", "z">>

Chars == { Ascii[i] : i \in DOMAIN Ascii }

CodeTable == [c \in Chars |-> CHOOSE i \in DOMAIN Ascii : Ascii[i] = c]

\* The UTF-16 code unit order of the characters.
CharCode(c) == CodeTable[c]

Upper == <<"A", "B", "C", "D", "E", "F", "G", "H", "I", "J", "K", "L", "M",
           "N", "O", "P", "Q", "R", "S", "T", "U", "V", "W", "X", "Y", "Z">>

LowerOf == <<"a", "b", "c", "d", "e", "f", "g", "h", "i", "j", "k", "l", "m",
             "n", "o", "p", "q", "r", "s", "t", "u", "v", "w", "x", "y", "z">>

LowerTable ==
    [c \in Chars |->
        IF \E i \in DOMAIN Upper : Upper[i] = c
        THEN LowerOf[CHOOSE i \in DOMAIN Upper : Upper[i] = c]
        ELSE c]

LowerChar(c) == LowerTable[c]

\* String.prototype.toLowerCase
ToLowerCase(s) == [i \in DOMAIN s |-> LowerChar(s[i])]

\* String.prototype.includes
Includes(s, q) ==
    \E k \in 0..(Len(s) - Len(q)) :
        \A i \in 1..Len(q) : s[k + i] = q[i]

\* The relational comparison a < b of two strings (by code unit, a proper
\* prefix being smaller).
StrLess(a, b) ==
    \E k \in 1..(Len(b)) :
        /\ k - 1 <= Len(a)
        /\ \A i \in 1..(k - 1) : a[i] = b[i]
        /\ \/ Len(a) = k - 1
           \/ Len(a) >= k /\ CharCode(a[k]) < CharCode(b[k])

\* `${x}` of a nullable string: null prints as the four characters "null".
TemplateStr(opt) == IF opt = <<>> THEN <<"n", "u", "l", "l">> ELSE opt[1]

\* `${first} ${last}`
FullNameOf(first, last) == TemplateStr(first) \o <<" ">> \o TemplateStr(last)

Digits == <<"0", "1", "2", "3", "4", "5", "6", "7", "8", "9">>

IsDigit(c) == \E i \in DOMAIN Digits : Digits[i] = c

DigitVal(c) == (CHOOSE i \in DOMAIN Digits : Digits[i] = c) - 1

\* Length of the longest prefix of s, from position from on, made of digits.
RECURSIVE DigitRun(_, _)
DigitRun(s, from) ==
    IF from <= Len(s) /\ IsDigit(s[from]) THEN 1 + DigitRun(s, from + 1) ELSE 0

\* Value of the decimal digits s[from .. from + n - 1].
RECURSIVE DigitsValue(_, _, _)
DigitsValue(s, from, n) ==
    IF n = 0 THEN 0
    ELSE 10 * DigitsValue(s, from, n - 1) + DigitVal(s[from + n - 1])

\* parseInt(s, 10): leading white space and one sign are skipped, then the
\* longest run of digits is read and whatever follows it is ignored.  The
\* result is <<n>>, or <<>> for NaN when no digit was read.
ParseInt(s) ==
    LET RECURSIVE SkipWs(_)
        SkipWs(i) == IF i <= Len(s) /\ s[i] = " " THEN SkipWs(i + 1) ELSE i
        p == SkipWs(1)
        signed == p <= Len(s) /\ s[p] \in {"+", "-"}
        from == IF signed THEN p + 1 ELSE p
        n == DigitRun(s, from)
        v == DigitsValue(s, from, n)
    IN  IF n = 0 THEN <<>>
        ELSE IF signed /\ s[p] = "-" THEN <<0 - v>> ELSE <<v>>

\* Money is compared in hundredths: parseFloat of a decimal string with at
\* most two fraction digits, times 100.  <<>> is NaN.
ParseFloat(s) ==
    LET n == DigitRun(s, 1)
        hasFrac == n + 1 <= Len(s) /\ s[n + 1] = "."
        f == IF hasFrac THEN DigitRun(s, n + 2) ELSE 0
        frac == IF f = 0 THEN 0
                ELSE IF f = 1 THEN 10 * DigitsValue(s, n + 2, 1)
                ELSE DigitsValue(s, n + 2, 2)
    IN  IF n = 0 /\ f = 0 THEN <<>>
        ELSE <<100 * DigitsValue(s, 1, n) + frac>>

\* a < b and a > b on numbers, false whenever an operand is NaN.
NumLess(a, b) == a # <<>> /\ b # <<>> /\ a[1] < b[1]

----------------------------------------------------------------------------
(* Dates *)

DayTicks == 2

\* new Date(isoTimestamp).getTime(): a timestamp of the API is a day and a
\* time within the day.
GetTime(ts) == ts.day * DayTicks + ts.part

\* new Date("YYYY-MM-DD").getTime(): the value of a date field is the digits
\* of a day, read as midnight UTC of that day.
DateOfField(s) == DigitsValue(s, 1, Len(s)) * DayTicks

----------------------------------------------------------------------------
(* Literals of the source *)

sOrder == <<"o", "r", "d", "e", "r">>
sDate == <<"d", "a", "t", "e">>
sTotal == <<"t", "o", "t", "a", "l">>
sName == <<"n", "a", "m", "e">>
sAsc == <<"a", "s", "c">>
sDesc == <<"d", "e", "s", "c">>
sPAID == <<"P", "A", "I", "D">>
sPENDING == <<"P", "E", "N", "D", "I", "N", "G">>
sREFUNDED == <<"R", "E", "F", "U", "N", "D", "E", "D">>
sVOIDED == <<"V", "O", "I", "D", "E", "D">>
sPARTIALLY_REFUNDED == <<"P", "A", "R", "T", "I", "A", "L", "L", "Y", "_">> \o sREFUNDED

\* An option value 'key direction' of IndexFilters.sortOptions.
SortOption(key, direction) == key \o <<" ">> \o direction

\* String.prototype.split(' ') of a string with at most one space:
\* <<text before the space, text after it>>.
SplitSpace(s) ==
    IF \E i \in DOMAIN s : s[i] = " "
    THEN LET i == CHOOSE j \in DOMAIN s :
                      s[j] = " " /\ \A k \in 1..(j - 1) : s[k] # " "
         IN  <<SubSeq(s, 1, i - 1), SubSeq(s, i + 1, Len(s))>>
    ELSE <<s>>

\* Array.prototype.includes
ArrayIncludes(arr, x) == \E i \in DOMAIN arr : arr[i] = x

\* Array.prototype.filter(...).length
RECURSIVE CountIf(_, _)
CountIf(flags, n) ==
    IF n = 0 THEN 0 ELSE CountIf(flags, n - 1) + (IF flags[n] THEN 1 ELSE 0)

----------------------------------------------------------------------------
(* Orders dashboard: route component Order *)

\* Variant of ThreeWay that never reports a tie.
ThreeWayNoTie(less, greater, sortDirection) ==
    IF less THEN (IF sortDirection = sAsc THEN 0 - 1 ELSE 1)
    ELSE (IF sortDirection = sAsc THEN 1 ELSE 0 - 1)

\* Variant of ThreeWay that ignores the direction.
ThreeWayNoDirection(less, greater, sortDirection) ==
    IF less THEN 0 - 1 ELSE IF greater THEN 1 ELSE 0

\* return -1 / 1 / 0 of the two sort callbacks.
ThreeWay(less, greater, sortDirection) ==
    IF less THEN (IF sortDirection = sAsc THEN 0 - 1 ELSE 1)
    ELSE IF greater THEN (IF sortDirection = sAsc THEN 1 ELSE 0 - 1)
    ELSE 0

\* parseFloat(o.totalPriceSet?.shopMoney?.amount || 0)
OrderAmount(o) ==
    IF o.amount = <<>> \/ o.amount[1] = <<>> THEN <<0>>
    ELSE ParseFloat(o.amount[1])

\* The amount as text: a.totalPriceSet?.shopMoney?.amount || "0".
OrderAmountText(o) ==
    IF o.amount = <<>> \/ o.amount[1] = <<>> THEN <<"0">> ELSE o.amount[1]

\* Variant of OrderCompare that compares the totals as text, unparsed.
OrderCompareTotalAsText(sortKey, sortDirection, a, b) ==
    IF sortKey = sOrder
    THEN ThreeWay(StrLess(a.name, b.name), StrLess(b.name, a.name),
                  sortDirection)
    ELSE IF sortKey = sDate
    THEN ThreeWay(GetTime(a.processedAt) < GetTime(b.processedAt),
                  GetTime(a.processedAt) > GetTime(b.processedAt),
                  sortDirection)
    ELSE IF sortKey = sTotal
    THEN ThreeWay(StrLess(OrderAmountText(a), OrderAmountText(b)),
                  StrLess(OrderAmountText(b), OrderAmountText(a)),
                  sortDirection)
    ELSE 0

\* The callback of filtered.sort in filteredOrders.
OrderCompare(sortKey, sortDirection, a, b) ==
    IF sortKey = sOrder
    THEN ThreeWay(StrLess(a.name, b.name), StrLess(b.name, a.name),
                  sortDirection)
    ELSE IF sortKey = sDate
    THEN ThreeWay(GetTime(a.processedAt) < GetTime(b.processedAt),
                  GetTime(a.processedAt) > GetTime(b.processedAt),
                  sortDirection)
    ELSE IF sortKey = sTotal
    THEN ThreeWay(NumLess(OrderAmount(a), OrderAmount(b)),
                  NumLess(OrderAmount(b), OrderAmount(a)), sortDirection)
    ELSE 0

\* Array.prototype.sort with the Order callback: stable (ECMAScript 2019).
\* x is placed after every element that does not compare greater than x.
RECURSIVE InsertOrder(_, _, _, _)
InsertOrder(x, s, sortKey, sortDirection) ==
    IF s = <<>> THEN <<x>>
    ELSE IF OrderCompare(sortKey, sortDirection, s[Len(s)], x) <= 0
    THEN Append(s, x)
    ELSE Append(InsertOrder(x, SubSeq(s, 1, Len(s) - 1), sortKey,
                            sortDirection), s[Len(s)])

\* Variant of SortOrders that inserts the first element instead of the last.
RECURSIVE SortOrdersFirst(_, _, _)
SortOrdersFirst(s, sortKey, sortDirection) ==
    IF s = <<>> THEN <<>>
    ELSE InsertOrder(s[1],
                     SortOrdersFirst(SubSeq(s, 1, Len(s) - 1), sortKey,
                                     sortDirection),
                     sortKey, sortDirection)

RECURSIVE SortOrders(_, _, _)
SortOrders(s, sortKey, sortDirection) ==
    IF s = <<>> THEN <<>>
    ELSE InsertOrder(s[Len(s)],
                     SortOrders(SubSeq(s, 1, Len(s) - 1), sortKey,
                                sortDirection),
                     sortKey, sortDirection)

\* Variant of OrderFilter that drops an order processed at the filter date.
OrderFilterStrictlyAfter(order, qv, sf, df, pf) ==
    LET orderName == ToLowerCase(order.name)
        customerName ==
            IF order.customer # <<>>
            THEN ToLowerCase(FullNameOf(order.customer[1].firstName,
                                        order.customer[1].lastName))
            ELSE <<>>
        query == ToLowerCase(qv)
    IN  IF /\ query # <<>>
           /\ ~Includes(orderName, query)
           /\ ~Includes(customerName, query)
        THEN FALSE
        ELSE IF /\ Len(sf) > 0
                /\ \/ order.displayFinancialStatus = <<>>
                   \/ ~ArrayIncludes(sf,
                          ToLowerCase(order.displayFinancialStatus[1]))
        THEN FALSE
        ELSE IF /\ df # <<>>
                /\ GetTime(order.processedAt) <= DateOfField(df)
        THEN FALSE
        ELSE IF /\ pf # <<>>
                /\ ~\E i \in DOMAIN order.lineItems :
                       Includes(ToLowerCase(order.lineItems[i]),
                                ToLowerCase(pf))
        THEN FALSE
        ELSE TRUE

\* Variant of OrderFilter that tests the status as the API spells it.
OrderFilterCaseSensitive(order, qv, sf, df, pf) ==
    LET orderName == ToLowerCase(order.name)
        customerName ==
            IF order.customer # <<>>
            THEN ToLowerCase(FullNameOf(order.customer[1].firstName,
                                        order.customer[1].lastName))
            ELSE <<>>
        query == ToLowerCase(qv)
    IN  IF /\ query # <<>>
           /\ ~Includes(orderName, query)
           /\ ~Includes(customerName, query)
        THEN FALSE
        ELSE IF /\ Len(sf) > 0
                /\ \/ order.displayFinancialStatus = <<>>
                   \/ ~ArrayIncludes(sf, order.displayFinancialStatus[1])
        THEN FALSE
        ELSE IF /\ df # <<>>
                /\ GetTime(order.processedAt) < DateOfField(df)
        THEN FALSE
        ELSE IF /\ pf # <<>>
                /\ ~\E i \in DOMAIN order.lineItems :
                       Includes(ToLowerCase(order.lineItems[i]),
                                ToLowerCase(pf))
        THEN FALSE
        ELSE TRUE

\* The callback of orders.filter in filteredOrders: the tests in the order
\* of the source, each with its early return.  The name of an order is never
\* null, so (order.name || "") is the name.
OrderFilter(order, qv, sf, df, pf) ==
    LET orderName == ToLowerCase(order.name)
        customerName ==
            IF order.customer # <<>>
            THEN ToLowerCase(FullNameOf(order.customer[1].firstName,
                                        order.customer[1].lastName))
            ELSE <<>>
        query == ToLowerCase(qv)
    IN  IF /\ query # <<>>
           /\ ~Includes(orderName, query)
           /\ ~Includes(customerName, query)
        THEN FALSE
        ELSE IF /\ Len(sf) > 0
                /\ \/ order.displayFinancialStatus = <<>>
                   \/ ~ArrayIncludes(sf,
                          ToLowerCase(order.displayFinancialStatus[1]))
        THEN FALSE
        ELSE IF /\ df # <<>>
                /\ GetTime(order.processedAt) < DateOfField(df)
        THEN FALSE
        ELSE IF /\ pf # <<>>
                /\ ~\E i \in DOMAIN order.lineItems :
                       Includes(ToLowerCase(order.lineItems[i]),
                                ToLowerCase(pf))
        THEN FALSE
        ELSE TRUE

\* The useMemo body of filteredOrders.
FilteredOrders(os, qv, sf, df, pf, ss) ==
    LET Keep(o) == OrderFilter(o, qv, sf, df, pf)
        filtered == SelectSeq(os, Keep)
    IN  IF Len(ss) > 0
        THEN LET parts == SplitSpace(ss[1])
             IN  SortOrders(filtered, parts[1], parts[2])
        ELSE filtered

\* Variant of OrdersAfterMemo in which the body sorts the batch itself,
\* orders.sort(...), before it filters.
OrdersSortedInPlace(os, ss) ==
    IF Len(ss) > 0
    THEN LET parts == SplitSpace(ss[1])
         IN  SortOrders(os, parts[1], parts[2])
    ELSE os

\* The array orders once the useMemo body has run: orders.filter(...) builds
\* a new array, and filtered.sort(...), which sorts in place, works on that
\* one.
OrdersAfterMemo(os, ss) == os

\* Variant of RatioAboveTenth that tests !(cancelled / total <= 0.1).
RatioNotAtMostTenth(cancelled, total) ==
    IF total = 0 THEN TRUE ELSE 10 * cancelled > total

\* Variant of RatioAboveTenth that tests cancelled / total >= 0.1.
RatioAtLeastTenth(cancelled, total) ==
    IF total = 0 THEN cancelled > 0 ELSE 10 * cancelled >= total

\* cancelled / total > 0.1 in IEEE doubles: 0/0 is NaN and compares false,
\* c/0 with c > 0 is Infinity; for total <= 250 the rounded quotient is
\* above the double 0.1 exactly when 10 * cancelled > total.
RatioAboveTenth(cancelled, total) ==
    IF total = 0 THEN cancelled > 0 ELSE 10 * cancelled > total

\* Variant of Stats that adds up one count per cancellation condition.
StatsPerCondition(os) ==
    LET total == Len(os)
        isVoided == [i \in DOMAIN os |->
            os[i].displayFinancialStatus = <<sVOIDED>>]
        isRefunded == [i \in DOMAIN os |->
            os[i].displayFinancialStatus = <<sREFUNDED>>]
        hasReason == [i \in DOMAIN os |->
            os[i].cancelReason # <<>> /\ os[i].cancelReason[1] # <<>>]
        isPending == [i \in DOMAIN os |->
            os[i].displayFinancialStatus = <<sPENDING>>]
        cancelled == CountIf(isVoided, total) + CountIf(isRefunded, total)
                         + CountIf(hasReason, total)
        pending == CountIf(isPending, total)
    IN  [total |-> total, cancelled |-> cancelled, pending |-> pending,
         highRisk |-> RatioAboveTenth(cancelled, total)]

\* The useMemo body of stats.
Stats(os) ==
    LET total == Len(os)
        isCancelled == [i \in DOMAIN os |->
            \/ os[i].displayFinancialStatus = <<sVOIDED>>
            \/ os[i].displayFinancialStatus = <<sREFUNDED>>
            \/ (os[i].cancelReason # <<>> /\ os[i].cancelReason[1] # <<>>)]
        isPending == [i \in DOMAIN os |->
            os[i].displayFinancialStatus = <<sPENDING>>]
        cancelled == CountIf(isCancelled, total)
        pending == CountIf(isPending, total)
    IN  [total |-> total, cancelled |-> cancelled, pending |-> pending,
         highRisk |-> RatioAboveTenth(cancelled, total)]

\* Variant of RenderStats that computes the metrics from the visible rows.
RenderStatsFiltered(os, filtered) == Stats(filtered)

\* stats = useMemo(..., [orders]): computed from the loader's batch.
RenderStats(os, filtered) == Stats(os)

----------------------------------------------------------------------------
(* Customers dashboard: route component Customer *)

\* The callback of filtered.sort in filteredCustomers.
CustomerCompare(sortKey, sortDirection, a, b) ==
    IF sortKey = sName
    THEN LET aValue == ToLowerCase(FullNameOf(a.firstName, a.lastName))
             bValue == ToLowerCase(FullNameOf(b.firstName, b.lastName))
         IN  ThreeWay(StrLess(aValue, bValue), StrLess(bValue, aValue),
                      sortDirection)
    ELSE IF sortKey = sDate
    THEN ThreeWay(GetTime(a.createdAt) < GetTime(b.createdAt),
                  GetTime(a.createdAt) > GetTime(b.createdAt),
                  sortDirection)
    ELSE 0

\* Variant of SortCustomers that sorts ascending and reverses for desc.
RECURSIVE SortCustomersAscending(_, _)
SortCustomersAscending(s, sortKey) ==
    IF s = <<>> THEN <<>>
    ELSE LET x == s[Len(s)]
             front == SortCustomersAscending(SubSeq(s, 1, Len(s) - 1),
                                             sortKey)
             after == { i \in DOMAIN front :
                          CustomerCompare(sortKey, sAsc, front[i], x) > 0 }
             k == IF after = {} THEN Len(front) + 1
                  ELSE CHOOSE i \in after : \A j \in after : i <= j
         IN  SubSeq(front, 1, k - 1) \o <<x>> \o SubSeq(front, k, Len(front))

SortCustomersReversing(s, sortKey, sortDirection) ==
    LET asc == SortCustomersAscending(s, sortKey)
    IN  IF sortDirection = sAsc THEN asc
        ELSE [i \in DOMAIN asc |-> asc[Len(asc) + 1 - i]]

\* Array.prototype.sort with the Customer callback: stable.
RECURSIVE InsertCustomer(_, _, _, _)
InsertCustomer(x, s, sortKey, sortDirection) ==
    IF s = <<>> THEN <<x>>
    ELSE IF CustomerCompare(sortKey, sortDirection, s[Len(s)], x) <= 0
    THEN Append(s, x)
    ELSE Append(InsertCustomer(x, SubSeq(s, 1, Len(s) - 1), sortKey,
                               sortDirection), s[Len(s)])

RECURSIVE SortCustomers(_, _, _)
SortCustomers(s, sortKey, sortDirection) ==
    IF s = <<>> THEN <<>>
    ELSE InsertCustomer(s[Len(s)],
                        SortCustomers(SubSeq(s, 1, Len(s) - 1), sortKey,
                                      sortDirection),
                        sortKey, sortDirection)

\* Variant of CustomerFilter that makes the last-order test first.
CustomerFilterLastOrderFirst(customer, qv, tf, cf, ioc, lodf) ==
    LET fullName == ToLowerCase(FullNameOf(customer.firstName,
                                           customer.lastName))
        email == IF customer.email = <<>> THEN <<>>
                 ELSE ToLowerCase(customer.email[1])
        query == ToLowerCase(qv)
        tags == IF customer.tags = <<>> THEN <<>> ELSE customer.tags[1]
        country == IF customer.country = <<>> THEN <<>>
                   ELSE customer.country[1]
        count == ParseInt(ioc)
    IN  IF lodf # <<>> /\ customer.lastOrder = <<>> THEN TRUE
        ELSE IF /\ lodf # <<>>
                /\ GetTime(customer.lastOrder[1]) > DateOfField(lodf)
        THEN FALSE
        ELSE IF /\ query # <<>>
                /\ ~Includes(fullName, query)
                /\ ~Includes(email, query)
        THEN FALSE
        ELSE IF /\ tf # <<>>
                /\ ~\E i \in DOMAIN tags :
                       Includes(ToLowerCase(tags[i]), ToLowerCase(tf))
        THEN FALSE
        ELSE IF /\ cf # <<>>
                /\ ~Includes(ToLowerCase(country), ToLowerCase(cf))
        THEN FALSE
        ELSE IF /\ ioc # <<>>
                /\ count # <<>>
                /\ customer.numberOfOrders < count[1]
        THEN FALSE
        ELSE TRUE

\* Variant of CustomerFilter that drops a last order made at the filter date.
CustomerFilterStrictlyBefore(customer, qv, tf, cf, ioc, lodf) ==
    LET fullName == ToLowerCase(FullNameOf(customer.firstName,
                                           customer.lastName))
        email == IF customer.email = <<>> THEN <<>>
                 ELSE ToLowerCase(customer.email[1])
        query == ToLowerCase(qv)
        tags == IF customer.tags = <<>> THEN <<>> ELSE customer.tags[1]
        country == IF customer.country = <<>> THEN <<>>
                   ELSE customer.country[1]
        count == ParseInt(ioc)
    IN  IF /\ query # <<>>
           /\ ~Includes(fullName, query)
           /\ ~Includes(email, query)
        THEN FALSE
        ELSE IF /\ tf # <<>>
                /\ ~\E i \in DOMAIN tags :
                       Includes(ToLowerCase(tags[i]), ToLowerCase(tf))
        THEN FALSE
        ELSE IF /\ cf # <<>>
                /\ ~Includes(ToLowerCase(country), ToLowerCase(cf))
        THEN FALSE
        ELSE IF /\ ioc # <<>>
                /\ count # <<>>
                /\ customer.numberOfOrders < count[1]
        THEN FALSE
        ELSE IF lodf # <<>>
        THEN IF customer.lastOrder = <<>> THEN TRUE
             ELSE IF GetTime(customer.lastOrder[1]) >= DateOfField(lodf)
             THEN FALSE
             ELSE TRUE
        ELSE TRUE

\* The callback of customers.filter in filteredCustomers: the tests in the
\* order of the source, each with its early return.
CustomerFilter(customer, qv, tf, cf, ioc, lodf) ==
    LET fullName == ToLowerCase(FullNameOf(customer.firstName,
                                           customer.lastName))
        email == IF customer.email = <<>> THEN <<>>
                 ELSE ToLowerCase(customer.email[1])
        query == ToLowerCase(qv)
        tags == IF customer.tags = <<>> THEN <<>> ELSE customer.tags[1]
        country == IF customer.country = <<>> THEN <<>>
                   ELSE customer.country[1]
        count == ParseInt(ioc)
    IN  IF /\ query # <<>>
           /\ ~Includes(fullName, query)
           /\ ~Includes(email, query)
        THEN FALSE
        ELSE IF /\ tf # <<>>
                /\ ~\E i \in DOMAIN tags :
                       Includes(ToLowerCase(tags[i]), ToLowerCase(tf))
        THEN FALSE
        ELSE IF /\ cf # <<>>
                /\ ~Includes(ToLowerCase(country), ToLowerCase(cf))
        THEN FALSE
        ELSE IF /\ ioc # <<>>
                /\ count # <<>>
                /\ customer.numberOfOrders < count[1]
        THEN FALSE
        ELSE IF lodf # <<>>
        THEN IF customer.lastOrder = <<>> THEN TRUE
             ELSE IF GetTime(customer.lastOrder[1]) > DateOfField(lodf)
             THEN FALSE
             ELSE TRUE
        ELSE TRUE

\* The useMemo body of filteredCustomers.
FilteredCustomers(cs, qv, tf, cf, ioc, lodf, ss) ==
    LET Keep(c) == CustomerFilter(c, qv, tf, cf, ioc, lodf)
        filtered == SelectSeq(cs, Keep)
    IN  IF Len(ss) > 0
        THEN LET parts == SplitSpace(ss[1])
             IN  SortCustomers(filtered, parts[1], parts[2])
        ELSE filtered

\* The array customers once the useMemo body has run: customers.filter(...)
\* builds a new array, and filtered.sort(...) works on that one.
CustomersAfterMemo(cs, ss) == cs

\* customers.reduce((acc, c) => acc + c.numberOfOrders, 0)
RECURSIVE SumOrders(_, _)
SumOrders(cs, n) ==
    IF n = 0 THEN 0 ELSE SumOrders(cs, n - 1) + cs[n].numberOfOrders

\* (sum / n).toFixed(1), in tenths: the nearest tenth, the larger one on a
\* tie (a tie is a quotient ending in .25 or .75 for n <= 4, which a double
\* holds exactly).
ToFixed1(sum, n) == (20 * sum + n) \div (2 * n)

\* The Average Orders card.
AverageOrders(cs) ==
    IF Len(cs) > 0 THEN ToFixed1(SumOrders(cs, Len(cs)), Len(cs)) ELSE 0

\* The Total Customers and Average Orders cards, rendered from the loader's
\* batch.
RenderCards(cs, filtered) ==
    [totalCustomers |-> Len(cs), averageOrders |-> AverageOrders(cs)]

----------------------------------------------------------------------------
(* Fetched batches and user inputs *)

Ts(d, p) == [day |-> d, part |-> p]

\* Nodes of the OrdersData query: sparse and full records, with ties on
\* every sort key.
OrderPool ==
    { [id |-> 1, name |-> <<"#", "1">>,
       customer |-> <<[firstName |-> <<<<"A", "l">>>>,
                       lastName |-> <<<<"B", "o">>>>]>>,
       displayFinancialStatus |-> <<sPAID>>, processedAt |-> Ts(1, 0),
       amount |-> <<<<"9", ".", "5">>>>, lineItems |-> <<<<"M", "u", "g">>>>,
       cancelReason |-> <<>>],
      [id |-> 2, name |-> <<"#", "2">>, customer |-> <<>>,
       displayFinancialStatus |-> <<sVOIDED>>, processedAt |-> Ts(2, 0),
       amount |-> <<<<"1", "0", ".", "0">>>>, lineItems |-> <<>>,
       cancelReason |-> <<<<"C", "U", "S", "T", "O", "M", "E", "R">>>>],
      [id |-> 3, name |-> <<"#", "1", "0">>,
       customer |-> <<[firstName |-> <<>>, lastName |-> <<<<"A", "l">>>>]>>,
       displayFinancialStatus |-> <<sREFUNDED>>, processedAt |-> Ts(2, 0),
       amount |-> <<<<"1", "0", ".", "0", "0">>>>,
       lineItems |-> <<<<"C", "a", "p">>, <<"m", "u", "g">>>>,
       cancelReason |-> <<>>],
      [id |-> 4, name |-> <<"#", "1">>,
       customer |-> <<[firstName |-> <<<<"a", "l">>>>, lastName |-> <<>>]>>,
       displayFinancialStatus |-> <<sPENDING>>, processedAt |-> Ts(1, 1),
       amount |-> <<>>, lineItems |-> <<<<"C", "a", "p">>>>,
       cancelReason |-> <<>>],
      [id |-> 5, name |-> <<"#", "3">>, customer |-> <<>>,
       displayFinancialStatus |-> <<>>, processedAt |-> Ts(3, 1),
       amount |-> <<<<"9", ".", "5", "0">>>>, lineItems |-> <<>>,
       cancelReason |-> <<<<"F", "R", "A", "U", "D">>>>] }

\* Nodes of the CustomersData query.
CustomerPool ==
    { [id |-> 1, firstName |-> <<<<"A", "n", "n">>>>,
       lastName |-> <<<<"L", "e", "e">>>>,
       email |-> <<<<"a", "@", "x">>>>, country |-> <<<<"U", "S">>>>,
       tags |-> <<<<<<"v", "i", "p">>>>>>, numberOfOrders |-> 3,
       lastOrder |-> <<Ts(1, 1)>>, createdAt |-> Ts(1, 0)],
      [id |-> 2, firstName |-> <<>>, lastName |-> <<<<"O", "n", "o">>>>,
       email |-> <<>>, country |-> <<>>, tags |-> <<>>,
       numberOfOrders |-> 0, lastOrder |-> <<>>, createdAt |-> Ts(2, 0)],
      [id |-> 3, firstName |-> <<<<"a", "n", "n">>>>,
       lastName |-> <<<<"l", "e", "e">>>>,
       email |-> <<<<"B", "@", "y">>>>, country |-> <<<<"P", "e", "r", "u">>>>,
       tags |-> <<<<<<"N", "e", "w">>, <<"V", "I", "P">>>>>>,
       numberOfOrders |-> 25, lastOrder |-> <<Ts(3, 0)>>,
       createdAt |-> Ts(2, 0)],
      [id |-> 4, firstName |-> <<<<"B", "o">>>>, lastName |-> <<>>,
       email |-> <<<<"b", "@", "x">>>>, country |-> <<<<"u", "s">>>>,
       tags |-> <<<<>>>>, numberOfOrders |-> 5,
       lastOrder |-> <<Ts(2, 0)>>, createdAt |-> Ts(1, 1)] }

\* The batches a loader can return: record identifiers are unique.
BatchesOf(pool) ==
    { b \in UNION { [1..n -> pool] : n \in 0..MaxBatch } :
        \A i, j \in DOMAIN b : i # j => b[i].id # b[j].id }

OrderQueryTexts == { <<>>, <<"#", "1">>, <<"A", "L">> }
StatusChoices ==
    { <<>>,
      <<<<"p", "a", "i", "d">>, <<"r", "e", "f", "u", "n", "d", "e", "d">>>> }
DateFields == { <<>>, <<"2">> }
ProductTexts == { <<>>, <<"M", "u">> }
OrderSortOptions ==
    { SortOption(k, d) : k \in {sOrder, sDate, sTotal}, d \in {sAsc, sDesc} }

CustomerQueryTexts == { <<>>, <<"B">> }
TagTexts == { <<>>, <<"V", "i">> }
CountryTexts == { <<>>, <<"U", "s">> }
CountTexts == { <<>>, <<"5">>, <<"e">>, <<"5", "a">>, <<"2", "e", "2">> }
CustomerSortOptions ==
    { SortOption(k, d) : k \in {sName, sDate}, d \in {sAsc, sDesc} }

----------------------------------------------------------------------------
(* State machine *)

NotRendered == <<>>

\* The state hooks of an unmounted component hold their initial values.
OrderHooksInit ==
    /\ queryValue = <<>>
    /\ statusFilter = <<>>
    /\ dateFilter = <<>>
    /\ productFilter = <<>>
    /\ sortSelected = <<SortOption(sDate, sDesc)>>
    /\ filteredOrders = NotRendered
    /\ stats = NotRendered

CustomerHooksInit ==
    /\ custQueryValue = <<>>
    /\ tagFilter = <<>>
    /\ countryFilter = <<>>
    /\ itemsOrderCount = <<>>
    /\ lastOrderDateFilter = <<>>
    /\ custSortSelected = <<SortOption(sDate, sDesc)>>
    /\ filteredCustomers = NotRendered
    /\ cards = NotRendered

\* The StoreHealth loader is not running.
HealthIdle ==
    /\ healthPc = "idle"
    /\ healthData = <<>>
    /\ healthNow = 0
    /\ healthLocals = <<>>
    /\ healthResult = <<>>

\* The Products page and the storefront profile page are not shown, and
\* nothing has been exported.
OtherPagesIdle ==
    /\ csvContent = <<>>
    /\ products = <<>>
    /\ selectedProduct = <<>>
    /\ active = FALSE
    /\ openedProduct = <<>>
    /\ profilePc = "idle"
    /\ profile = <<>>
    /\ loading = TRUE
    /\ errorMsg = <<>>

\* The fetch of the route's loader is not followed.
LoaderIdle ==
    /\ loaderPc = "idle"
    /\ loaderData = <<>>
    /\ response = [kind |-> "none"]

\* A loader has returned its batch; the component has not rendered yet.
Init ==
    /\ mounted = FALSE
    /\ OrderHooksInit
    /\ CustomerHooksInit
    /\ HealthIdle
    /\ LoaderIdle
    /\ OtherPagesIdle
    /\ \/ route = "orders" /\ orders \in BatchesOf(OrderPool)
          /\ customers = <<>>
       \/ route = "customers" /\ customers \in BatchesOf(CustomerPool)
          /\ orders = <<>>

\* A render of Order with the given hook values.
OrderRender(qv, sf, df, pf, ss) ==
    /\ route = "orders"
    /\ queryValue' = qv
    /\ statusFilter' = sf
    /\ dateFilter' = df
    /\ productFilter' = pf
    /\ sortSelected' = ss
    /\ filteredOrders' = FilteredOrders(orders, qv, sf, df, pf, ss)
    /\ stats' = RenderStats(orders, FilteredOrders(orders, qv, sf, df, pf, ss))
    /\ orders' = OrdersAfterMemo(orders, ss)
    /\ UNCHANGED <<route, customerVars, healthVars, loaderVars,
                   csvContent, productVars, profileVars>>

OrderMount ==
    /\ ~mounted
    /\ mounted' = TRUE
    /\ OrderRender(queryValue, statusFilter, dateFilter, productFilter,
                   sortSelected)

OrderHandleQueryValueChange ==
    \E value \in OrderQueryTexts :
        /\ mounted /\ UNCHANGED mounted
        /\ OrderRender(value, statusFilter, dateFilter, productFilter,
                       sortSelected)

OrderHandleStatusChange ==
    \E value \in StatusChoices :
        /\ mounted /\ UNCHANGED mounted
        /\ OrderRender(queryValue, value, dateFilter, productFilter,
                       sortSelected)

OrderHandleDateChange ==
    \E value \in DateFields :
        /\ mounted /\ UNCHANGED mounted
        /\ OrderRender(queryValue, statusFilter, value, productFilter,
                       sortSelected)

OrderHandleProductChange ==
    \E value \in ProductTexts :
        /\ mounted /\ UNCHANGED mounted
        /\ OrderRender(queryValue, statusFilter, dateFilter, value,
                       sortSelected)

OrderOnSort ==
    \E value \in OrderSortOptions :
        /\ mounted /\ UNCHANGED mounted
        /\ OrderRender(queryValue, statusFilter, dateFilter, productFilter,
                       <<value>>)

\* Variant of OrderHandleClearAll that leaves the product filter as it is.
OrderHandleClearAllButProduct ==
    /\ mounted /\ UNCHANGED mounted
    /\ OrderRender(<<>>, <<>>, <<>>, productFilter, sortSelected)

OrderHandleClearAll ==
    /\ mounted /\ UNCHANGED mounted
    /\ OrderRender(<<>>, <<>>, <<>>, <<>>, sortSelected)

\* A render of Customer with the given hook values.
CustomerRender(qv, tf, cf, ioc, lodf, ss) ==
    /\ route = "customers"
    /\ custQueryValue' = qv
    /\ tagFilter' = tf
    /\ countryFilter' = cf
    /\ itemsOrderCount' = ioc
    /\ lastOrderDateFilter' = lodf
    /\ custSortSelected' = ss
    /\ filteredCustomers' = FilteredCustomers(customers, qv, tf, cf, ioc,
                                              lodf, ss)
    /\ cards' = RenderCards(customers,
                            FilteredCustomers(customers, qv, tf, cf, ioc,
                                              lodf, ss))
    /\ customers' = CustomersAfterMemo(customers, ss)
    /\ UNCHANGED <<route, orderVars, healthVars, loaderVars,
                   csvContent, productVars, profileVars>>

CustomerMount ==
    /\ ~mounted
    /\ mounted' = TRUE
    /\ CustomerRender(custQueryValue, tagFilter, countryFilter,
                      itemsOrderCount, lastOrderDateFilter, custSortSelected)

CustomerHandleQueryValueChange ==
    \E value \in CustomerQueryTexts :
        /\ mounted /\ UNCHANGED mounted
        /\ CustomerRender(value, tagFilter, countryFilter, itemsOrderCount,
                          lastOrderDateFilter, custSortSelected)

CustomerHandleTagChange ==
    \E value \in TagTexts :
        /\ mounted /\ UNCHANGED mounted
        /\ CustomerRender(custQueryValue, value, countryFilter,
                          itemsOrderCount, lastOrderDateFilter,
                          custSortSelected)

CustomerHandleCountryChange ==
    \E value \in CountryTexts :
        /\ mounted /\ UNCHANGED mounted
        /\ CustomerRender(custQueryValue, tagFilter, value, itemsOrderCount,
                          lastOrderDateFilter, custSortSelected)

CustomerHandleOrderCountChange ==
    \E value \in CountTexts :
        /\ mounted /\ UNCHANGED mounted
        /\ CustomerRender(custQueryValue, tagFilter, countryFilter, value,
                          lastOrderDateFilter, custSortSelected)

CustomerHandleLastOrderDateChange ==
    \E value \in DateFields :
        /\ mounted /\ UNCHANGED mounted
        /\ CustomerRender(custQueryValue, tagFilter, countryFilter,
                          itemsOrderCount, value, custSortSelected)

CustomerOnSort ==
    \E value \in CustomerSortOptions :
        /\ mounted /\ UNCHANGED mounted
        /\ CustomerRender(custQueryValue, tagFilter, countryFilter,
                          itemsOrderCount, lastOrderDateFilter, <<value>>)

CustomerHandleClearAll ==
    /\ mounted /\ UNCHANGED mounted
    /\ CustomerRender(<<>>, <<>>, <<>>, <<>>, <<>>, custSortSelected)

Next ==
    \/ OrderMount
    \/ OrderHandleQueryValueChange
    \/ OrderHandleStatusChange
    \/ OrderHandleDateChange
    \/ OrderHandleProductChange
    \/ OrderOnSort
    \/ OrderHandleClearAll
    \/ CustomerMount
    \/ CustomerHandleQueryValueChange
    \/ CustomerHandleTagChange
    \/ CustomerHandleCountryChange
    \/ CustomerHandleOrderCountChange
    \/ CustomerHandleLastOrderDateChange
    \/ CustomerOnSort
    \/ CustomerHandleClearAll

Spec == Init /\ [][Next]_vars

----------------------------------------------------------------------------
(* The metrics of larger order batches *)

\* Texts typed into the search field of either page: besides the plain ones,
\* texts that occur only in the printed form of a null name part and texts
\* that occur only across the two searched strings put end to end.
OrderSearchTexts == OrderQueryTexts \cup { <<"N", "u">>, <<"1", "A">> }

CustomerSearchTexts == CustomerQueryTexts \cup { <<"L", "L">>, <<"E", "A">> }

\* handleQueryValueChange of Order, over the search texts.
OrderSearch ==
    \E value \in OrderSearchTexts :
        /\ mounted /\ UNCHANGED mounted
        /\ OrderRender(value, statusFilter, dateFilter, productFilter,
                       sortSelected)

\* handleQueryValueChange of Customer, over the search texts.
CustomerSearch ==
    \E value \in CustomerSearchTexts :
        /\ mounted /\ UNCHANGED mounted
        /\ CustomerRender(value, tagFilter, countryFilter, itemsOrderCount,
                          lastOrderDateFilter, custSortSelected)

NextSearch ==
    \/ OrderMount
    \/ OrderSearch
    \/ CustomerMount
    \/ CustomerSearch

\* Either page with only its search field in use.
SpecSearch == Init /\ [][NextSearch]_vars

sCUSTOMER == <<"C", "U", "S", "T", "O", "M", "E", "R">>

\* <<financial status, cancellation reason>> of the orders of a batch.
StatsKinds ==
    << <<<<sPAID>>, <<>>>>, <<<<sVOIDED>>, <<>>>>, <<<<sREFUNDED>>, <<>>>>,
       <<<<sPENDING>>, <<>>>>, <<<<sPAID>>, <<sCUSTOMER>>>>,
       <<<<sVOIDED>>, <<sCUSTOMER>>>> >>

RECURSIVE SumTo(_, _)
SumTo(counts, k) == IF k = 0 THEN 0 ELSE SumTo(counts, k - 1) + counts[k]

\* The batch with counts[k] orders of kind k, kind after kind.
StatsBatch(counts) ==
    [i \in 1..SumTo(counts, Len(counts)) |->
        LET k == CHOOSE j \in DOMAIN counts :
                     SumTo(counts, j - 1) < i /\ i <= SumTo(counts, j)
        IN  [id |-> i, name |-> <<"#", "1">>, customer |-> <<>>,
             displayFinancialStatus |-> StatsKinds[k][1],
             processedAt |-> Ts(1, 0), amount |-> <<>>, lineItems |-> <<>>,
             cancelReason |-> StatsKinds[k][2]]]

\* The orders loader has returned a batch of up to MaxStatsBatch orders.
InitStats ==
    /\ route = "orders"
    /\ mounted = FALSE
    /\ OrderHooksInit
    /\ CustomerHooksInit
    /\ HealthIdle
    /\ LoaderIdle
    /\ OtherPagesIdle
    /\ customers = <<>>
    /\ \E n1 \in 0..MaxStatsBatch :
       \E n2 \in 0..(MaxStatsBatch - n1) :
       \E n3 \in 0..(MaxStatsBatch - n1 - n2) :
       \E n4 \in 0..(MaxStatsBatch - n1 - n2 - n3) :
       \E n5 \in 0..(MaxStatsBatch - n1 - n2 - n3 - n4) :
       \E n6 \in 0..(MaxStatsBatch - n1 - n2 - n3 - n4 - n5) :
           orders = StatsBatch(<<n1, n2, n3, n4, n5, n6>>)

NextStats == OrderMount

SpecStats == InitStats /\ [][NextStats]_vars

----------------------------------------------------------------------------
(* Store health: the loader of route StoreHealth *)

SevenDays == 7
FourteenDays == 14
ThirtyDays == 30
SixtyDays == 60
NinetyDays == 90

\* new Date(now - n * 24 * 60 * 60 * 1000)
DaysAgo(now, n) == now - n * DayTicks

\* node.key: undefined (<<>>) when the node was fetched without that field.
Prop(node, key) == IF key \in DOMAIN node THEN node[key] ELSE <<>>

\* a + b on numbers, NaN (<<>>) whenever an operand is NaN.
NumAdd(a, b) == IF a = <<>> \/ b = <<>> THEN <<>> ELSE <<a[1] + b[1]>>

OrdersLast7d(os, now) ==
    CountIf([i \in DOMAIN os |->
                GetTime(os[i].processedAt) >= DaysAgo(now, SevenDays)],
            Len(os))

OrdersPrev7d(os, now) ==
    CountIf([i \in DOMAIN os |->
                /\ GetTime(os[i].processedAt) >= DaysAgo(now, FourteenDays)
                /\ GetTime(os[i].processedAt) < DaysAgo(now, SevenDays)],
            Len(os))

\* ordersPrev7d > 0 ? ((orderTrend / ordersPrev7d) * 100).toFixed(1) : 100,
\* in tenths.  toFixed rounds the magnitude to the nearest tenth and puts the
\* sign in front; no quotient of two counts below 16 lies half-way.
OrderTrendPercent(orderTrend, ordersPrev7d) ==
    IF ordersPrev7d > 0
    THEN [kind |-> "string",
          tenths |-> IF orderTrend >= 0
                     THEN ToFixed1(100 * orderTrend, ordersPrev7d)
                     ELSE 0 - ToFixed1(100 * (0 - orderTrend), ordersPrev7d)]
    ELSE [kind |-> "number", tenths |-> 1000]

Cancelled30d(os, now) ==
    CountIf([i \in DOMAIN os |->
                /\ GetTime(os[i].processedAt) >= DaysAgo(now, ThirtyDays)
                /\ \/ os[i].displayFinancialStatus = <<sREFUNDED>>
                   \/ os[i].displayFinancialStatus = <<sVOIDED>>
                   \/ os[i].cancelledAt # <<>>],
            Len(os))

\* Variant of InactiveCustomers90 that also takes a last order made exactly
\* 90 days ago.
InactiveCustomers90Inclusive(cs, now) ==
    LET Test(c) ==
            \/ c.lastOrder = <<>>
            \/ GetTime(c.lastOrder[1].processedAt) <= DaysAgo(now, NinetyDays)
    IN  SelectSeq(cs, Test)

InactiveCustomers90(cs, now) ==
    LET Test(c) ==
            \/ c.lastOrder = <<>>
            \/ GetTime(c.lastOrder[1].processedAt) < DaysAgo(now, NinetyDays)
    IN  SelectSeq(cs, Test)

\* customers.filter(c => !c.email || c.email === "").length
CustomersNoEmail(cs) ==
    CountIf([i \in DOMAIN cs |->
                \/ Prop(cs[i], "email") = <<>>
                \/ Prop(cs[i], "email")[1] = <<>>],
            Len(cs))

\* The refunds constant of the refundHeavyCustomers callback.
RefundCount(c) ==
    CountIf([i \in DOMAIN c.orders |->
                \/ c.orders[i] = <<sREFUNDED>>
                \/ c.orders[i] = <<sPARTIALLY_REFUNDED>>],
            Len(c.orders))

\* Variant of RefundHeavyCustomers that lists a customer from one refund on.
RefundHeavyCustomersFromOne(cs) ==
    LET Test(c) == RefundCount(c) >= 1
    IN  SelectSeq(cs, Test)

RefundHeavyCustomers(cs) ==
    LET Test(c) == RefundCount(c) > 1
    IN  SelectSeq(cs, Test)

\* c.totalSpent?.amount
TotalSpentAmount(c) ==
    IF Prop(c, "totalSpent") = <<>> THEN <<>>
    ELSE Prop(c, "totalSpent")[1].amount

\* parseFloat(c.totalSpent?.amount || 0), in hundredths
Spent(c) ==
    IF TotalSpentAmount(c) = <<>> \/ TotalSpentAmount(c)[1] = <<>>
    THEN <<0>>
    ELSE ParseFloat(TotalSpentAmount(c)[1])

\* customers.reduce((acc, c) => acc + parseFloat(...), 0)
RECURSIVE TotalSpentSum(_, _)
TotalSpentSum(cs, n) ==
    IF n = 0 THEN <<0>> ELSE NumAdd(TotalSpentSum(cs, n - 1), Spent(cs[n]))

\* totalSpentSum / (customers.length || 1), kept as the quotient num / den.
AvgSpent(cs) ==
    [num |-> TotalSpentSum(cs, Len(cs)),
     den |-> IF Len(cs) = 0 THEN 1 ELSE Len(cs)]

\* spent > avgSpent
AboveAvg(spent, avg) ==
    /\ spent # <<>>
    /\ avg.num # <<>>
    /\ spent[1] * avg.den > avg.num[1]

AtRiskHighValue(cs, now) ==
    LET Test(c) ==
            /\ c.lastOrder # <<>>
            /\ AboveAvg(Spent(c), AvgSpent(cs))
            /\ GetTime(c.lastOrder[1].processedAt) < DaysAgo(now, SixtyDays)
    IN  SelectSeq(cs, Test)

\* The constants of the loader once its filters have run.
HealthLocals(cs, os, now) ==
    [ordersLast7d |-> OrdersLast7d(os, now),
     ordersPrev7d |-> OrdersPrev7d(os, now),
     orderTrend |-> OrdersLast7d(os, now) - OrdersPrev7d(os, now),
     orderTrendPercent |->
         OrderTrendPercent(OrdersLast7d(os, now) - OrdersPrev7d(os, now),
                           OrdersPrev7d(os, now)),
     cancelled30d |-> Cancelled30d(os, now),
     inactiveCustomers90 |-> InactiveCustomers90(cs, now),
     customersNoEmail |-> CustomersNoEmail(cs),
     refundHeavyCustomers |-> RefundHeavyCustomers(cs),
     totalSpentSum |-> TotalSpentSum(cs, Len(cs)),
     avgSpent |-> AvgSpent(cs),
     atRiskHighValue |-> AtRiskHighValue(cs, now)]

\* o.node.displayFinancialStatus.includes('REFUNDED') over the recent orders
\* of c is a TypeError on an order whose status is null.
RefundsRaises(c) == \E i \in DOMAIN c.orders : c.orders[i] = <<>>

\* Variant of RefundsShown that counts the fully refunded orders only.
RefundsShownFullOnly(c) ==
    CountIf([i \in DOMAIN c.orders |-> c.orders[i][1] = sREFUNDED],
            Len(c.orders))

\* c.orders.edges.filter(o => ....includes('REFUNDED')).length
RefundsShown(c) ==
    CountIf([i \in DOMAIN c.orders |-> Includes(c.orders[i][1], sREFUNDED)],
            Len(c.orders))

\* The object the loader returns.
HealthReturn(l) ==
    [metrics |->
        [ordersLast7d |-> l.ordersLast7d,
         ordersPrev7d |-> l.ordersPrev7d,
         orderTrend |-> l.orderTrend,
         orderTrendPercent |-> l.orderTrendPercent,
         cancelled30d |-> l.cancelled30d,
         inactiveCount90 |-> Len(l.inactiveCustomers90),
         customersNoEmail |-> l.customersNoEmail],
     lists |->
        [refundHeavy |->
            [i \in DOMAIN l.refundHeavyCustomers |->
                [id |-> l.refundHeavyCustomers[i].id,
                 name |-> FullNameOf(l.refundHeavyCustomers[i].firstName,
                                     l.refundHeavyCustomers[i].lastName),
                 email |-> Prop(l.refundHeavyCustomers[i], "email"),
                 refunds |-> RefundsShown(l.refundHeavyCustomers[i])]],
         atRiskHighValue |->
            [i \in DOMAIN l.atRiskHighValue |->
                [id |-> l.atRiskHighValue[i].id,
                 name |-> FullNameOf(l.atRiskHighValue[i].firstName,
                                     l.atRiskHighValue[i].lastName),
                 spent |-> TotalSpentAmount(l.atRiskHighValue[i]),
                 lastOrder |-> l.atRiskHighValue[i].lastOrder[1].processedAt]]]]

\* Customer nodes of the StoreHealthData query, dated around the day the
\* loader runs on.
HealthCustomerPool ==
    { [id |-> 1, firstName |-> <<<<"A", "n", "n">>>>,
       lastName |-> <<<<"L", "e", "e">>>>,
       defaultEmailAddress |-> <<[emailAddress |-> <<<<"a", "@", "x">>>>]>>,
       amountSpent |-> [amount |-> <<"9", "0", ".", "0">>],
       numberOfOrders |-> 4,
       lastOrder |-> <<[processedAt |-> Ts(39, 1),
                        displayFinancialStatus |-> <<sREFUNDED>>]>>,
       orders |-> <<<<sREFUNDED>>, <<sPARTIALLY_REFUNDED>>, <<sPAID>>>>],
      [id |-> 2, firstName |-> <<>>, lastName |-> <<<<"O", "n", "o">>>>,
       defaultEmailAddress |-> <<>>,
       amountSpent |-> [amount |-> <<"0", ".", "0">>],
       numberOfOrders |-> 0,
       lastOrder |-> <<>>,
       orders |-> <<>>],
      [id |-> 3, firstName |-> <<<<"B", "o">>>>, lastName |-> <<>>,
       defaultEmailAddress |-> <<[emailAddress |-> <<<<"b", "@", "y">>>>]>>,
       amountSpent |-> [amount |-> <<"1", "0", ".", "0">>],
       numberOfOrders |-> 1,
       lastOrder |-> <<[processedAt |-> Ts(40, 0),
                        displayFinancialStatus |-> <<sREFUNDED>>]>>,
       orders |-> <<<<sREFUNDED>>>>],
      [id |-> 4, firstName |-> <<<<"C", "y">>>>,
       lastName |-> <<<<"D", "e", "e">>>>,
       defaultEmailAddress |-> <<[emailAddress |-> <<<<"c", "@", "z">>>>]>>,
       amountSpent |-> [amount |-> <<"5", "0", ".", "0">>],
       numberOfOrders |-> 3,
       lastOrder |-> <<[processedAt |-> Ts(9, 1),
                        displayFinancialStatus |-> <<>>]>>,
       orders |-> <<<<sREFUNDED>>, <<>>, <<sPARTIALLY_REFUNDED>>>>],
      [id |-> 5, firstName |-> <<<<"E", "d">>>>,
       lastName |-> <<<<"F", "o", "x">>>>,
       defaultEmailAddress |-> <<[emailAddress |-> <<>>]>>,
       amountSpent |-> [amount |-> <<"5", ".", "5">>],
       numberOfOrders |-> 2,
       lastOrder |-> <<[processedAt |-> Ts(99, 0),
                        displayFinancialStatus |-> <<sPARTIALLY_REFUNDED>>]>>,
       orders |-> <<<<sPARTIALLY_REFUNDED>>, <<sPARTIALLY_REFUNDED>>>>],
      [id |-> 6, firstName |-> <<<<"G", "i">>>>,
       lastName |-> <<<<"H", "o">>>>,
       defaultEmailAddress |-> <<[emailAddress |-> <<<<"g", "@", "x">>>>]>>,
       amountSpent |-> [amount |-> <<"5", "0", ".", "0">>],
       numberOfOrders |-> 2,
       lastOrder |-> <<[processedAt |-> Ts(10, 0),
                        displayFinancialStatus |-> <<sPAID>>]>>,
       orders |-> <<<<sPAID>>, <<>>>>] }

\* Order nodes of the StoreHealthData query.
HealthOrderPool ==
    { [id |-> 1, processedAt |-> Ts(93, 0),
       displayFinancialStatus |-> <<sPAID>>, cancelledAt |-> <<>>],
      [id |-> 2, processedAt |-> Ts(86, 0),
       displayFinancialStatus |-> <<sREFUNDED>>, cancelledAt |-> <<>>],
      [id |-> 3, processedAt |-> Ts(92, 1),
       displayFinancialStatus |-> <<sVOIDED>>, cancelledAt |-> <<>>],
      [id |-> 4, processedAt |-> Ts(70, 0),
       displayFinancialStatus |-> <<>>, cancelledAt |-> <<Ts(71, 0)>>] }

\* The instants the loader can run at: midnight of a day, or later that day.
HealthNows == { GetTime(Ts(100, 0)), GetTime(Ts(100, 1)) }

\* response.json() has delivered the data of the StoreHealthData query.
InitHealth ==
    /\ route = "health"
    /\ mounted = FALSE
    /\ OrderHooksInit
    /\ CustomerHooksInit
    /\ orders = <<>>
    /\ customers = <<>>
    /\ healthPc = "fetched"
    /\ healthData \in [customers : BatchesOf(HealthCustomerPool),
                       orders : BatchesOf(HealthOrderPool)]
    /\ healthNow = 0
    /\ healthLocals = <<>>
    /\ healthResult = <<>>
    /\ LoaderIdle
    /\ OtherPagesIdle

\* The loader from the data on: it reads the clock, computes its constants
\* and returns its object, unless building the object raises.
HealthLoader ==
    \E now \in HealthNows :
        /\ healthPc = "fetched"
        /\ healthNow' = now
        /\ healthLocals' =
               HealthLocals(healthData.customers, healthData.orders, now)
        /\ IF \E i \in DOMAIN RefundHeavyCustomers(healthData.customers) :
                  RefundsRaises(RefundHeavyCustomers(healthData.customers)[i])
           THEN /\ healthPc' = "raised"
                /\ healthResult' = <<>>
           ELSE /\ healthPc' = "returned"
                /\ healthResult' =
                       HealthReturn(HealthLocals(healthData.customers,
                                                 healthData.orders, now))
        /\ UNCHANGED <<route, mounted, orderVars, customerVars, healthData,
                       loaderVars, csvContent, productVars, profileVars>>

NextHealth == HealthLoader

SpecHealth == InitHealth /\ [][NextHealth]_vars

----------------------------------------------------------------------------
(* Customers dashboard: exportToCSV *)

\* `${n}` of a count or of the number an id ends in.
RECURSIVE NumberToString(_)
NumberToString(n) ==
    IF n < 10 THEN <<Digits[n + 1]>>
    ELSE NumberToString(n \div 10) \o <<Digits[(n % 10) + 1]>>

\* Array.prototype.join
RECURSIVE Join(_, _)
Join(parts, sep) ==
    IF Len(parts) = 0 THEN <<>>
    ELSE IF Len(parts) = 1 THEN parts[1]
    ELSE parts[1] \o sep \o Join(Tail(parts), sep)

\* new Date(ts).toDateString(): the day without the time of day, as words and
\* digits separated by spaces.
ToDateString(ts) == <<"D", "a", "y", " ">> \o NumberToString(ts.day)

sNever == <<"N", "e", "v", "e", "r">>

headers ==
    <<<<"I", "D">>,
      <<"N", "a", "m", "e">>,
      <<"E", "m", "a", "i", "l">>,
      <<"C", "o", "u", "n", "t", "r", "y">>,
      <<"T", "a", "g", "s">>,
      <<"O", "r", "d", "e", "r", "s">>,
      <<"L", "a", "s", "t", " ", "O", "r", "d", "e", "r", " ", "D", "a", "t", "e">>,
      <<"J", "o", "i", "n", "e", "d", " ", "D", "a", "t", "e">>>>

\* One element of rows, each item as the template literal prints it.
ExportRow(node) ==
    <<NumberToString(node.id),
      FullNameOf(node.firstName, node.lastName),
      IF node.email = <<>> THEN <<>> ELSE node.email[1],
      IF node.country = <<>> THEN <<>> ELSE node.country[1],
      Join(IF node.tags = <<>> THEN <<>> ELSE node.tags[1], <<",", " ">>),
      NumberToString(node.numberOfOrders),
      IF node.lastOrder # <<>> THEN ToDateString(node.lastOrder[1])
      ELSE sNever,
      ToDateString(node.createdAt)>>

\* row.map(item => `"${item}"`).join(",")
ExportLine(row) ==
    Join([k \in DOMAIN row |-> <<"\"">> \o row[k] \o <<"\"">>], <<",">>)

\* csvContent
CsvContent(filtered) ==
    Join(<<Join(headers, <<",">>)>>
             \o [i \in DOMAIN filtered |-> ExportLine(ExportRow(filtered[i]))],
         <<"\n">>)

\* Customer nodes whose texts hold a double quote, a comma or a line break,
\* besides the nodes of CustomerPool.
ExportPool ==
    CustomerPool \cup
    { [id |-> 5, firstName |-> <<<<"A", "l", " ", "\"", "B", "\"">>>>,
       lastName |-> <<<<"B", "o">>>>,
       email |-> <<<<"a", "@", "y">>>>, country |-> <<<<"U", "S">>>>,
       tags |-> <<<<<<"v", "i", "p">>>>>>, numberOfOrders |-> 12,
       lastOrder |-> <<Ts(2, 1)>>, createdAt |-> Ts(1, 0)],
      [id |-> 6, firstName |-> <<<<"C", "y">>>>,
       lastName |-> <<<<"D", "e", "e", "\n", "J", "r">>>>,
       email |-> <<>>, country |-> <<<<"U", "S">>>>,
       tags |-> <<<<<<"a", ",", "b">>, <<"n", "e", "w">>>>>>, numberOfOrders |-> 1,
       lastOrder |-> <<>>, createdAt |-> Ts(3, 0)] }

\* The Customers loader has returned its batch.
InitExport ==
    /\ route = "customers"
    /\ mounted = FALSE
    /\ OrderHooksInit
    /\ CustomerHooksInit
    /\ HealthIdle
    /\ LoaderIdle
    /\ OtherPagesIdle
    /\ orders = <<>>
    /\ customers \in BatchesOf(ExportPool)

\* exportToCSV: the content of the blob the browser downloads.
ExportToCSV ==
    /\ route = "customers"
    /\ mounted
    /\ csvContent' = CsvContent(filteredCustomers)
    /\ UNCHANGED <<route, mounted, orderVars, customerVars, healthVars,
                   loaderVars, productVars, profileVars>>

NextExport ==
    \/ CustomerMount
    \/ CustomerHandleQueryValueChange
    \/ CustomerOnSort
    \/ ExportToCSV

SpecExport == InitExport /\ [][NextExport]_vars

----------------------------------------------------------------------------
(* Products page: route component Product *)

sACTIVE == <<"A", "C", "T", "I", "V", "E">>
sDRAFT == <<"D", "R", "A", "F", "T">>

\* Nodes of the GetProducts query.
ProductPool ==
    { [id |-> 1, title |-> <<"M", "u", "g">>, status |-> sACTIVE],
      [id |-> 2, title |-> <<"C", "a", "p">>, status |-> sACTIVE],
      [id |-> 3, title |-> <<"M", "u", "g">>, status |-> sDRAFT],
      [id |-> 4, title |-> <<"B", "a", "g">>, status |-> sDRAFT] }

\* The Products loader has returned and Product has rendered: no product is
\* selected and the modal is closed.
InitProduct ==
    /\ route = "products"
    /\ mounted = TRUE
    /\ OrderHooksInit
    /\ CustomerHooksInit
    /\ HealthIdle
    /\ LoaderIdle
    /\ orders = <<>>
    /\ customers = <<>>
    /\ csvContent = <<>>
    /\ products \in BatchesOf(ProductPool)
    /\ selectedProduct = <<>>
    /\ active = FALSE
    /\ openedProduct = <<>>
    /\ profilePc = "idle"
    /\ profile = <<>>
    /\ loading = TRUE
    /\ errorMsg = <<>>

\* handleOpenModal(product), from the View Details button of a product.
ProductHandleOpenModal ==
    \E i \in DOMAIN products :
        /\ route = "products"
        /\ selectedProduct' = <<products[i]>>
        /\ active' = TRUE
        /\ openedProduct' = <<products[i]>>
        /\ UNCHANGED <<route, mounted, orderVars, customerVars, healthVars,
                       loaderVars, csvContent, products, profileVars>>

\* Variant of ProductHandleCloseModal that only closes the modal.
ProductHandleCloseModalOnly ==
    /\ route = "products"
    /\ active
    /\ active' = FALSE
    /\ UNCHANGED <<route, mounted, orderVars, customerVars, healthVars,
                   loaderVars, csvContent, products, selectedProduct,
                   openedProduct, profileVars>>

\* handleCloseModal, from the modal's onClose and its Close action.
ProductHandleCloseModal ==
    /\ route = "products"
    /\ active
    /\ active' = FALSE
    /\ selectedProduct' = <<>>
    /\ UNCHANGED <<route, mounted, orderVars, customerVars, healthVars,
                   loaderVars, csvContent, products, openedProduct,
                   profileVars>>

NextProduct ==
    \/ ProductHandleOpenModal
    \/ ProductHandleCloseModal

SpecProduct == InitProduct /\ [][NextProduct]_vars

----------------------------------------------------------------------------
(* Storefront profile page: ProfilePage and its effect fetchProfile *)

\* "No customer data returned. Ensure you are logged in."
sNoCustomerData ==
    <<"N", "o", " ", "c", "u", "s", "t", "o", "m", "e", "r", " ", "d", "a",
      "t", "a", " ", "r", "e", "t", "u", "r", "n", "e", "d", ".", " ", "E",
      "n", "s", "u", "r", "e", " ", "y", "o", "u", " ", "a", "r", "e", " ",
      "l", "o", "g", "g", "e", "d", " ", "i", "n", ".">>

\* The messages of the errors the platform throws into fetchProfile: a
\* TypeError of fetch, a SyntaxError of response.json(), and the TypeError of
\* reading json.errors off a null body.
sFailedToFetch == <<"F", "a", "i", "l", "e", "d", " ", "t", "o", " ", "f", "e", "t", "c",
      "h">>
sUnexpectedToken == <<"U", "n", "e", "x", "p", "e", "c", "t", "e", "d", " ", "t", "o", "k",
      "e", "n">>
sCannotReadNull == <<"C", "a", "n", "n", "o", "t", " ", "r", "e", "a", "d", " ", "p", "r",
      "o", "p", "e", "r", "t", "i", "e", "s", " ", "o", "f", " ", "n", "u",
      "l", "l">>

\* JSON.stringify of the errors array of a body, each error by its message.
Stringify(errors) ==
    <<"[">> \o Join([i \in DOMAIN errors |->
                        <<"\"">> \o errors[i] \o <<"\"">>], <<",">>)
            \o <<"]">>

\* The customer objects a body can carry.
ProfileCustomers ==
    [firstName : { <<>>, <<<<"A", "n", "n">>>> },
     lastName : { <<>>, <<<<"L", "e", "e">>>>, <<<<"O", "n", "o">>>> },
     email : { <<>>, <<<<"a", "@", "x">>>> },
     orders : { <<>>, <<<<"#", "1">>>>, <<<<"#", "1">>, <<"#", "2">>>> }]

\* The values response.json() can resolve to: null, or an object with or
\* without errors (an array, possibly empty) and with or without data, whose
\* customer may be null.
ProfileBodies ==
    { <<>> } \cup
    { <<[errors |-> e, data |-> d]>> :
        e \in { <<>>, <<<<>>>>, <<<<<<"d", "e", "n", "i", "e", "d">>>>>>,
                <<<<<<"d", "e", "n", "i", "e", "d">>, <<"t", "h", "r", "o", "t", "t", "l", "e", "d">>>>>> },
        d \in { <<>>, <<[customer |-> <<>>]>> }
                  \cup { <<[customer |-> <<c>>]>> : c \in ProfileCustomers } }

\* Variant of SettersAfterJson without the else between its first two tests:
\* a body with errors and a customer sets both.
SettersAfterJsonBoth(json) ==
    IF json = <<>>
    THEN [profile |-> <<>>, errorMsg |-> <<sCannotReadNull>>]
    ELSE [profile |->
              IF json[1].data # <<>> /\ json[1].data[1].customer # <<>>
              THEN json[1].data[1].customer ELSE <<>>,
          errorMsg |->
              IF json[1].errors # <<>>
              THEN <<Stringify(json[1].errors[1])>>
              ELSE IF json[1].data # <<>> /\ json[1].data[1].customer # <<>>
              THEN <<>>
              ELSE <<sNoCustomerData>>]

\* What the part of fetchProfile after response.json() leaves in profile and
\* errorMsg, both null before it: reading json.errors off a null body throws
\* into the catch clause.
SettersAfterJson(json) ==
    IF json = <<>>
    THEN [profile |-> <<>>, errorMsg |-> <<sCannotReadNull>>]
    ELSE IF json[1].errors # <<>>
    THEN [profile |-> <<>>, errorMsg |-> <<Stringify(json[1].errors[1])>>]
    ELSE IF json[1].data # <<>> /\ json[1].data[1].customer # <<>>
    THEN [profile |-> json[1].data[1].customer, errorMsg |-> <<>>]
    ELSE [profile |-> <<>>, errorMsg |-> <<sNoCustomerData>>]

\* ProfilePage has rendered for the first time and its effect has called
\* fetchProfile, which awaits fetch(...).
InitProfile ==
    /\ route = "profile"
    /\ mounted = TRUE
    /\ OrderHooksInit
    /\ CustomerHooksInit
    /\ HealthIdle
    /\ orders = <<>>
    /\ customers = <<>>
    /\ loaderPc = "idle"
    /\ loaderData = <<>>
    /\ response = [kind |-> "none"]
    /\ csvContent = <<>>
    /\ products = <<>>
    /\ selectedProduct = <<>>
    /\ active = FALSE
    /\ openedProduct = <<>>
    /\ profilePc = "fetching"
    /\ profile = <<>>
    /\ loading = TRUE
    /\ errorMsg = <<>>

\* fetch(...) rejects: catch, then finally.
FetchProfileRequestRejects ==
    /\ profilePc = "fetching"
    /\ response' = [kind |-> "rejected"]
    /\ errorMsg' = <<sFailedToFetch>>
    /\ loading' = FALSE
    /\ profilePc' = "done"
    /\ UNCHANGED <<route, mounted, orderVars, customerVars, healthVars,
                   loaderPc, loaderData, csvContent, productVars, profile>>

\* fetch(...) resolves: fetchProfile awaits response.json().
FetchProfileRequestResolves ==
    /\ profilePc = "fetching"
    /\ response' = [kind |-> "received"]
    /\ profilePc' = "parsing"
    /\ UNCHANGED <<route, mounted, orderVars, customerVars, healthVars,
                   loaderPc, loaderData, csvContent, productVars, profile,
                   loading, errorMsg>>

\* Variant of FetchProfileJsonThrows without the finally clause.
FetchProfileJsonThrowsNoFinally ==
    /\ profilePc = "parsing"
    /\ response' = [kind |-> "invalid"]
    /\ errorMsg' = <<sUnexpectedToken>>
    /\ profilePc' = "done"
    /\ UNCHANGED <<route, mounted, orderVars, customerVars, healthVars,
                   loaderPc, loaderData, csvContent, productVars, profile,
                   loading>>

\* response.json() rejects, the body being no JSON: catch, then finally.
FetchProfileJsonThrows ==
    /\ profilePc = "parsing"
    /\ response' = [kind |-> "invalid"]
    /\ errorMsg' = <<sUnexpectedToken>>
    /\ loading' = FALSE
    /\ profilePc' = "done"
    /\ UNCHANGED <<route, mounted, orderVars, customerVars, healthVars,
                   loaderPc, loaderData, csvContent, productVars, profile>>

\* response.json() resolves: the tests of the body, then finally.
FetchProfileJsonResolves ==
    \E json \in ProfileBodies :
        /\ profilePc = "parsing"
        /\ response' = [kind |-> "json", body |-> json]
        /\ profile' = SettersAfterJson(json).profile
        /\ errorMsg' = SettersAfterJson(json).errorMsg
        /\ loading' = FALSE
        /\ profilePc' = "done"
        /\ UNCHANGED <<route, mounted, orderVars, customerVars, healthVars,
                       loaderPc, loaderData, csvContent, productVars>>

NextProfile ==
    \/ FetchProfileRequestRejects
    \/ FetchProfileRequestResolves
    \/ FetchProfileJsonThrows
    \/ FetchProfileJsonResolves

SpecProfile == InitProfile /\ [][NextProfile]_vars

\* The promises of fetch(...) and of response.json() settle.
SpecProfileLive == SpecProfile /\ WF_vars(NextProfile)

----------------------------------------------------------------------------
(* The loaders, from their call of admin.graphql on *)

\* What awaiting admin.graphql(...) and then response.json() can give a
\* loader: the request rejects, the body carries no data, or the body
\* carries the nodes of the query.
Responses(batches) ==
    { [kind |-> "rejected"], [kind |-> "json", data |-> <<>>] }
        \cup { [kind |-> "json", data |-> <<b>>] : b \in batches }

\* The fetch has failed: rejected, or a body without data.
FetchFailed(r) == r.kind = "rejected" \/ (r.kind = "json" /\ r.data = <<>>)

\* The loader of a route has called admin.graphql.
InitLoad ==
    /\ route \in {"orders", "customers", "health"}
    /\ mounted = FALSE
    /\ OrderHooksInit
    /\ CustomerHooksInit
    /\ orders = <<>>
    /\ customers = <<>>
    /\ healthData = <<>>
    /\ healthNow = 0
    /\ healthLocals = <<>>
    /\ healthResult = <<>>
    /\ healthPc = IF route = "health" THEN "awaiting" ELSE "idle"
    /\ loaderPc = IF route = "health" THEN "idle" ELSE "awaiting"
    /\ loaderData = <<>>
    /\ response = [kind |-> "none"]
    /\ OtherPagesIdle

\* The loader of the Orders route: a rejected request is thrown by the
\* await, a body without data by responseJson.data.orders.
OrdersLoader ==
    \E r \in Responses(BatchesOf(OrderPool)) :
        /\ route = "orders"
        /\ loaderPc = "awaiting"
        /\ response' = r
        /\ IF FetchFailed(r)
           THEN loaderPc' = "raised" /\ loaderData' = <<>>
           ELSE loaderPc' = "returned" /\ loaderData' = [orders |-> r.data[1]]
        /\ UNCHANGED <<route, mounted, orderVars, customerVars, healthVars,
                       csvContent, productVars, profileVars>>

\* The loader of the Customers route.
CustomersLoader ==
    \E r \in Responses(BatchesOf(CustomerPool)) :
        /\ route = "customers"
        /\ loaderPc = "awaiting"
        /\ response' = r
        /\ IF FetchFailed(r)
           THEN loaderPc' = "raised" /\ loaderData' = <<>>
           ELSE loaderPc' = "returned"
                /\ loaderData' = [customers |-> r.data[1]]
        /\ UNCHANGED <<route, mounted, orderVars, customerVars, healthVars,
                       csvContent, productVars, profileVars>>

\* The loader of the StoreHealth route up to its constants customers and
\* orders: a rejected request is thrown by the await, a body without data by
\* data.data.customers.
HealthFetch ==
    \E r \in Responses([customers : BatchesOf(HealthCustomerPool),
                        orders : BatchesOf(HealthOrderPool)]) :
        /\ route = "health"
        /\ healthPc = "awaiting"
        /\ response' = r
        /\ IF FetchFailed(r)
           THEN healthPc' = "raised" /\ healthData' = <<>>
           ELSE healthPc' = "fetched" /\ healthData' = r.data[1]
        /\ UNCHANGED <<route, mounted, orderVars, customerVars, healthNow,
                       healthLocals, healthResult, loaderPc, loaderData,
                       csvContent, productVars, profileVars>>

NextLoad ==
    \/ OrdersLoader
    \/ CustomersLoader
    \/ HealthFetch
    \/ HealthLoader

SpecLoad == InitLoad /\ [][NextLoad]_vars

----------------------------------------------------------------------------
(* Properties *)

OrdersShown == route = "orders" /\ mounted
CustomersShown == route = "customers" /\ mounted

\* Number of occurrences of x in the sequence s.
Occurrences(x, s) == Cardinality({ i \in DOMAIN s : s[i] = x })

\* Every row of v is a record of b, no more often than in b.
IsSubBag(v, b) ==
    \A i \in DOMAIN v : /\ Occurrences(v[i], b) >= 1
                        /\ Occurrences(v[i], v) <= Occurrences(v[i], b)

IsPermutation(v, b) ==
    /\ Len(v) = Len(b)
    /\ \A i \in DOMAIN b : Occurrences(b[i], v) = Occurrences(b[i], b)

SelectedKey(ss) == SplitSpace(ss[1])[1]
SelectedDirection(ss) == SplitSpace(ss[1])[2]

\* a is strictly before b under the projection of an order sort key.
OrderKeyLess(key, a, b) ==
    IF key = sOrder THEN StrLess(a.name, b.name)
    ELSE IF key = sDate THEN GetTime(a.processedAt) < GetTime(b.processedAt)
    ELSE OrderAmount(a)[1] < OrderAmount(b)[1]

\* a is strictly before b under the projection of a customer sort key.
CustomerKeyLess(key, a, b) ==
    IF key = sName
    THEN StrLess(ToLowerCase(FullNameOf(a.firstName, a.lastName)),
                 ToLowerCase(FullNameOf(b.firstName, b.lastName)))
    ELSE GetTime(a.createdAt) < GetTime(b.createdAt)

\* C1: for a fixed fetched batch, no change of the search text, of a field
\* filter or of the sort selection changes the summary metrics (orders:
\* total, cancelled, pending, highRisk; customers: total, average orders).
C1_MetricsIgnoreQuery ==
    [][(mounted /\ orders' = orders /\ customers' = customers)
           => (stats' = stats /\ cards' = cards)]_vars

\* The cards show the whole batch while the table shows fewer rows.
C1_Witness ==
    /\ OrdersShown
    /\ queryValue # <<>>
    /\ stats.cancelled > 0
    /\ Len(filteredOrders) < stats.total

\* C2: every visible row is a record of the batch, and no record is visible
\* more often than it is in the batch.
C2_VisibleRowsFromBatch ==
    /\ OrdersShown => IsSubBag(filteredOrders, orders)
    /\ CustomersShown => IsSubBag(filteredCustomers, customers)

C2_Witness ==
    /\ OrdersShown
    /\ Len(orders) = MaxBatch
    /\ Len(filteredOrders) = 2
    /\ filteredOrders[1] = orders[MaxBatch]

OrderFiltersAbsent ==
    /\ queryValue = <<>>
    /\ statusFilter = <<>>
    /\ dateFilter = <<>>
    /\ productFilter = <<>>

CustomerFiltersAbsent ==
    /\ custQueryValue = <<>>
    /\ tagFilter = <<>>
    /\ countryFilter = <<>>
    /\ itemsOrderCount = <<>>
    /\ lastOrderDateFilter = <<>>

\* Adjacent rows are in the order of the key: non-decreasing under asc,
\* non-increasing under desc.
OrdersInKeyOrder(v, ss) ==
    \A i \in 1..(Len(v) - 1) :
        IF SelectedDirection(ss) = sAsc
        THEN ~OrderKeyLess(SelectedKey(ss), v[i + 1], v[i])
        ELSE ~OrderKeyLess(SelectedKey(ss), v[i], v[i + 1])

CustomersInKeyOrder(v, ss) ==
    \A i \in 1..(Len(v) - 1) :
        IF SelectedDirection(ss) = sAsc
        THEN ~CustomerKeyLess(SelectedKey(ss), v[i + 1], v[i])
        ELSE ~CustomerKeyLess(SelectedKey(ss), v[i], v[i + 1])

\* C3: with an empty search text and no field filter, the visible list is a
\* permutation of the batch in the order of the selected key and direction.
C3_IdentityFilter ==
    /\ (OrdersShown /\ OrderFiltersAbsent) =>
           /\ IsPermutation(filteredOrders, orders)
           /\ OrdersInKeyOrder(filteredOrders, sortSelected)
    /\ (CustomersShown /\ CustomerFiltersAbsent) =>
           /\ IsPermutation(filteredCustomers, customers)
           /\ CustomersInKeyOrder(filteredCustomers, custSortSelected)

\* No filter, a full batch, and the sort has moved the rows.
C3_Witness ==
    /\ OrdersShown
    /\ OrderFiltersAbsent
    /\ Len(orders) = MaxBatch
    /\ sortSelected = <<SortOption(sTotal, sDesc)>>
    /\ filteredOrders # orders
    /\ OrderKeyLess(sTotal, filteredOrders[MaxBatch], filteredOrders[1])

\* The identifiers of the rows of v.
VisibleIds(v) == { v[i].id : i \in DOMAIN v }

\* The single tests of the orders filter.
OrderPassesText(o, qv) ==
    \/ qv = <<>>
    \/ Includes(ToLowerCase(o.name), ToLowerCase(qv))
    \/ /\ o.customer # <<>>
       /\ Includes(ToLowerCase(FullNameOf(o.customer[1].firstName,
                                          o.customer[1].lastName)),
                   ToLowerCase(qv))

OrderPassesStatus(o, sf) ==
    \/ Len(sf) = 0
    \/ /\ o.displayFinancialStatus # <<>>
       /\ ArrayIncludes(sf, ToLowerCase(o.displayFinancialStatus[1]))

OrderPassesDate(o, df) ==
    df = <<>> \/ GetTime(o.processedAt) >= DateOfField(df)

OrderPassesProduct(o, pf) ==
    \/ pf = <<>>
    \/ \E i \in DOMAIN o.lineItems :
           Includes(ToLowerCase(o.lineItems[i]), ToLowerCase(pf))

\* The single tests of the customers filter.
CustomerPassesText(c, qv) ==
    \/ qv = <<>>
    \/ Includes(ToLowerCase(FullNameOf(c.firstName, c.lastName)),
                ToLowerCase(qv))
    \/ c.email # <<>> /\ Includes(ToLowerCase(c.email[1]), ToLowerCase(qv))

CustomerPassesTag(c, tf) ==
    \/ tf = <<>>
    \/ /\ c.tags # <<>>
       /\ \E i \in DOMAIN c.tags[1] :
              Includes(ToLowerCase(c.tags[1][i]), ToLowerCase(tf))

CustomerPassesCountry(c, cf) ==
    \/ cf = <<>>
    \/ c.country # <<>> /\ Includes(ToLowerCase(c.country[1]), ToLowerCase(cf))

CustomerPassesCount(c, ioc) ==
    \/ ioc = <<>>
    \/ ParseInt(ioc) = <<>>
    \/ c.numberOfOrders >= ParseInt(ioc)[1]

CustomerPassesLastOrder(c, lodf) ==
    \/ lodf = <<>>
    \/ c.lastOrder = <<>>
    \/ GetTime(c.lastOrder[1]) <= DateOfField(lodf)

\* C4: a record is visible iff it satisfies every active filter at once; a
\* customer without a last order that fails another filter stays hidden
\* while the last-order-before filter is active.
C4_FilterConjunction ==
    /\ OrdersShown =>
           \A i \in DOMAIN orders :
               (orders[i].id \in VisibleIds(filteredOrders)) <=>
                   /\ OrderPassesText(orders[i], queryValue)
                   /\ OrderPassesStatus(orders[i], statusFilter)
                   /\ OrderPassesDate(orders[i], dateFilter)
                   /\ OrderPassesProduct(orders[i], productFilter)
    /\ CustomersShown =>
           \A i \in DOMAIN customers :
               (customers[i].id \in VisibleIds(filteredCustomers)) <=>
                   /\ CustomerPassesText(customers[i], custQueryValue)
                   /\ CustomerPassesTag(customers[i], tagFilter)
                   /\ CustomerPassesCountry(customers[i], countryFilter)
                   /\ CustomerPassesCount(customers[i], itemsOrderCount)
                   /\ CustomerPassesLastOrder(customers[i],
                                              lastOrderDateFilter)

\* The last-order-before filter is active, a customer has no last order and
\* fails the country filter only, and is hidden.
C4_Witness ==
    /\ CustomersShown
    /\ lastOrderDateFilter # <<>>
    /\ countryFilter # <<>>
    /\ custQueryValue = <<>> /\ tagFilter = <<>> /\ itemsOrderCount = <<>>
    /\ \E i \in DOMAIN customers :
           /\ customers[i].lastOrder = <<>>
           /\ customers[i].id \notin VisibleIds(filteredCustomers)
    /\ filteredCustomers # <<>>

\* C5: applying the filter and sort of the query to the visible list gives
\* the visible list again, same records in the same order.
C5_Idempotent ==
    /\ OrdersShown =>
           FilteredOrders(filteredOrders, queryValue, statusFilter,
                          dateFilter, productFilter, sortSelected)
               = filteredOrders
    /\ CustomersShown =>
           FilteredCustomers(filteredCustomers, custQueryValue, tagFilter,
                             countryFilter, itemsOrderCount,
                             lastOrderDateFilter, custSortSelected)
               = filteredCustomers

\* A filter has removed a customer, the sort has reordered the rest, and two
\* visible rows tie on the key under desc.
C5_Witness ==
    /\ CustomersShown
    /\ Len(customers) = MaxBatch
    /\ Len(filteredCustomers) = MaxBatch - 1
    /\ SelectedDirection(custSortSelected) = sDesc
    /\ \E i \in DOMAIN filteredCustomers, j \in DOMAIN filteredCustomers :
           /\ i < j
           /\ ~CustomerKeyLess(SelectedKey(custSortSelected),
                               filteredCustomers[i], filteredCustomers[j])
           /\ ~CustomerKeyLess(SelectedKey(custSortSelected),
                               filteredCustomers[j], filteredCustomers[i])

\* Position of the record with identifier id in the batch b.
PositionOf(id, b) == CHOOSE i \in DOMAIN b : b[i].id = id

\* C6: two visible records with equal values under the selected sort key are
\* in the relative order they have in the fetched batch, for asc and desc.
C6_StableSort ==
    /\ OrdersShown =>
           \A i \in DOMAIN filteredOrders, j \in DOMAIN filteredOrders :
               (/\ i < j
                /\ ~OrderKeyLess(SelectedKey(sortSelected),
                                 filteredOrders[i], filteredOrders[j])
                /\ ~OrderKeyLess(SelectedKey(sortSelected),
                                 filteredOrders[j], filteredOrders[i]))
               => PositionOf(filteredOrders[i].id, orders)
                      < PositionOf(filteredOrders[j].id, orders)
    /\ CustomersShown =>
           \A i \in DOMAIN filteredCustomers,
              j \in DOMAIN filteredCustomers :
               (/\ i < j
                /\ ~CustomerKeyLess(SelectedKey(custSortSelected),
                                    filteredCustomers[i],
                                    filteredCustomers[j])
                /\ ~CustomerKeyLess(SelectedKey(custSortSelected),
                                    filteredCustomers[j],
                                    filteredCustomers[i]))
               => PositionOf(filteredCustomers[i].id, customers)
                      < PositionOf(filteredCustomers[j].id, customers)

\* Under desc, two orders tie on the total, a third one sorts before them and
\* came after them in the batch.
C6_Witness ==
    /\ OrdersShown
    /\ sortSelected = <<SortOption(sTotal, sDesc)>>
    /\ Len(filteredOrders) = 3
    /\ OrderAmount(filteredOrders[2]) = OrderAmount(filteredOrders[3])
    /\ OrderKeyLess(sTotal, filteredOrders[2], filteredOrders[1])
    /\ PositionOf(filteredOrders[1].id, orders)
           > PositionOf(filteredOrders[3].id, orders)

\* C7: for an empty batch the metrics are computed: highRisk is false on the
\* orders dashboard and the average order count is 0 on the customers one.
C7_EmptyBatch ==
    /\ (OrdersShown /\ orders = <<>>) =>
           stats = [total |-> 0, cancelled |-> 0, pending |-> 0,
                    highRisk |-> FALSE]
    /\ (CustomersShown /\ customers = <<>>) =>
           cards = [totalCustomers |-> 0, averageOrders |-> 0]

C7_Witness ==
    /\ OrdersShown
    /\ orders = <<>>
    /\ stats.total = 0
    /\ ~stats.highRisk

HasCancelReason(o) == o.cancelReason # <<>> /\ o.cancelReason[1] # <<>>

CancelledOrders(b) ==
    { i \in DOMAIN b :
        \/ b[i].displayFinancialStatus \in {<<sREFUNDED>>, <<sVOIDED>>}
        \/ HasCancelReason(b[i]) }

PendingOrders(b) ==
    { i \in DOMAIN b : b[i].displayFinancialStatus = <<sPENDING>> }

\* C8: the cancelled count is the number of orders that are REFUNDED or
\* VOIDED or carry a cancellation reason, each counted once, and the pending
\* count is the number of PENDING orders.
C8_CancelledAndPending ==
    OrdersShown =>
        /\ stats.cancelled = Cardinality(CancelledOrders(orders))
        /\ stats.pending = Cardinality(PendingOrders(orders))

\* A batch with a VOIDED order that also has a cancellation reason, a plain
\* REFUNDED one, a PAID one with a reason, and pending orders.
C8_Witness ==
    /\ OrdersShown
    /\ stats.cancelled = 3
    /\ stats.pending = 2
    /\ stats.total > 5
    /\ \E i \in DOMAIN orders :
           /\ orders[i].displayFinancialStatus = <<sVOIDED>>
           /\ HasCancelReason(orders[i])
    /\ \E i \in DOMAIN orders :
           /\ orders[i].displayFinancialStatus = <<sPAID>>
           /\ HasCancelReason(orders[i])
    /\ \E i \in DOMAIN orders :
           /\ orders[i].displayFinancialStatus = <<sREFUNDED>>

\* C9: highRisk is true exactly when the cancelled count over the batch size
\* is strictly above 0.10; ten orders with two VOIDED and no cancellation
\* reason are high risk, a batch with exactly 10% cancelled is not.
C9_HighRiskThreshold ==
    OrdersShown =>
        /\ stats.highRisk <=>
               /\ Len(orders) > 0
               /\ 10 * Cardinality(CancelledOrders(orders)) > Len(orders)
        /\ (10 * Cardinality(CancelledOrders(orders)) = Len(orders))
               => ~stats.highRisk
        /\ (/\ Len(orders) = 10
            /\ Cardinality({ i \in DOMAIN orders :
                   orders[i].displayFinancialStatus = <<sVOIDED>> }) = 2
            /\ \A i \in DOMAIN orders : ~HasCancelReason(orders[i]))
               => stats.highRisk

\* Ten orders, two of them VOIDED and the others PAID, no cancellation reason:
\* cancelled = 2 and the batch is high risk.
C9_Witness ==
    /\ OrdersShown
    /\ Len(orders) = 10
    /\ \A i \in DOMAIN orders :
           /\ ~HasCancelReason(orders[i])
           /\ orders[i].displayFinancialStatus \in {<<sPAID>>, <<sVOIDED>>}
    /\ stats.cancelled = 2
    /\ stats.highRisk

\* The text is a decimal numeral of an integer: digits, then optionally an
\* exponent of digits.
DenotesInteger(s) ==
    LET m == DigitRun(s, 1)
        x == DigitRun(s, m + 2)
    IN  /\ m >= 1
        /\ \/ m = Len(s)
           \/ /\ m + 1 <= Len(s) /\ s[m + 1] = "e"
              /\ x >= 1 /\ m + 1 + x = Len(s)

RECURSIVE Pow10(_)
Pow10(n) == IF n = 0 THEN 1 ELSE 10 * Pow10(n - 1)

IntegerDenoted(s) ==
    LET m == DigitRun(s, 1)
    IN  IF m = Len(s) THEN DigitsValue(s, 1, m)
        ELSE DigitsValue(s, 1, m)
                 * Pow10(DigitsValue(s, m + 2, Len(s) - m - 1))

\* C10: with the minimum-order-count filter set to the text of an integer n,
\* a customer passes it iff its order count is >= n; with any non-numeric
\* text the filter is absent and every customer passes it.
C10_MinOrderCount ==
    (CustomersShown /\ itemsOrderCount # <<>>) =>
        \A i \in DOMAIN customers :
            (customers[i].id \in VisibleIds(filteredCustomers)) <=>
                /\ CustomerPassesText(customers[i], custQueryValue)
                /\ CustomerPassesTag(customers[i], tagFilter)
                /\ CustomerPassesCountry(customers[i], countryFilter)
                /\ CustomerPassesLastOrder(customers[i], lastOrderDateFilter)
                /\ DenotesInteger(itemsOrderCount) =>
                       customers[i].numberOfOrders
                           >= IntegerDenoted(itemsOrderCount)

\* C11: with the order date filter active, an order passes iff its processed
\* timestamp is on or after the filter date; an order processed exactly at
\* the filter date is kept and there is no upper bound.
C11_DateLowerBound ==
    (OrdersShown /\ dateFilter # <<>>) =>
        /\ \A i \in DOMAIN filteredOrders :
               GetTime(filteredOrders[i].processedAt)
                   >= DateOfField(dateFilter)
        /\ (queryValue = <<>> /\ statusFilter = <<>> /\ productFilter = <<>>)
               => VisibleIds(filteredOrders) =
                      { orders[i].id : i \in
                          { j \in DOMAIN orders :
                              GetTime(orders[j].processedAt)
                                  >= DateOfField(dateFilter) } }

\* Only the date filter is active: an order processed exactly at the filter
\* date and a later one are shown, an earlier one is hidden.
C11_Witness ==
    /\ OrdersShown
    /\ dateFilter # <<>>
    /\ queryValue = <<>> /\ statusFilter = <<>> /\ productFilter = <<>>
    /\ \E i \in DOMAIN filteredOrders :
           GetTime(filteredOrders[i].processedAt) = DateOfField(dateFilter)
    /\ \E i \in DOMAIN filteredOrders :
           GetTime(filteredOrders[i].processedAt) > DateOfField(dateFilter)
    /\ \E i \in DOMAIN orders :
           /\ GetTime(orders[i].processedAt) < DateOfField(dateFilter)
           /\ orders[i].id \notin VisibleIds(filteredOrders)

\* C12: with the last-order-before filter active, a customer passes it iff
\* it has no last order or its last-order timestamp is on or before the
\* filter date.
C12_LastOrderUpperBound ==
    (CustomersShown /\ lastOrderDateFilter # <<>>) =>
        /\ \A i \in DOMAIN filteredCustomers :
               \/ filteredCustomers[i].lastOrder = <<>>
               \/ GetTime(filteredCustomers[i].lastOrder[1])
                      <= DateOfField(lastOrderDateFilter)
        /\ (/\ custQueryValue = <<>> /\ tagFilter = <<>>
            /\ countryFilter = <<>> /\ itemsOrderCount = <<>>)
               => VisibleIds(filteredCustomers) =
                      { customers[i].id : i \in
                          { j \in DOMAIN customers :
                              \/ customers[j].lastOrder = <<>>
                              \/ GetTime(customers[j].lastOrder[1])
                                     <= DateOfField(lastOrderDateFilter) } }

\* Only the last-order filter is active: a customer without last order and
\* one whose last order is exactly at the filter date are shown, one with a
\* later last order is hidden.
C12_Witness ==
    /\ CustomersShown
    /\ lastOrderDateFilter # <<>>
    /\ custQueryValue = <<>> /\ tagFilter = <<>>
    /\ countryFilter = <<>> /\ itemsOrderCount = <<>>
    /\ \E i \in DOMAIN filteredCustomers :
           filteredCustomers[i].lastOrder = <<>>
    /\ \E i \in DOMAIN filteredCustomers :
           /\ filteredCustomers[i].lastOrder # <<>>
           /\ GetTime(filteredCustomers[i].lastOrder[1])
                  = DateOfField(lastOrderDateFilter)
    /\ \E i \in DOMAIN customers :
           /\ customers[i].lastOrder # <<>>
           /\ GetTime(customers[i].lastOrder[1])
                  > DateOfField(lastOrderDateFilter)
           /\ customers[i].id \notin VisibleIds(filteredCustomers)

\* The financial status of o, lower-cased, is one of the selected values.
StatusSelected(o, sf) ==
    /\ o.displayFinancialStatus # <<>>
    /\ \E k \in DOMAIN sf : sf[k] = ToLowerCase(o.displayFinancialStatus[1])

\* C13: with a non-empty status set, an order passes iff its financial
\* status, lower-cased, is in the set, and an order without financial status
\* does not pass; with an empty set every order passes the status filter.
C13_StatusFilter ==
    OrdersShown =>
        /\ Len(statusFilter) > 0 =>
               \A i \in DOMAIN filteredOrders :
                   StatusSelected(filteredOrders[i], statusFilter)
        /\ (queryValue = <<>> /\ dateFilter = <<>> /\ productFilter = <<>>)
               => VisibleIds(filteredOrders) =
                      { orders[i].id : i \in
                          { j \in DOMAIN orders :
                              \/ Len(statusFilter) = 0
                              \/ StatusSelected(orders[j], statusFilter) } }

\* Only the status filter is active: a PAID order is shown, an order without
\* financial status and a VOIDED one are hidden.
C13_Witness ==
    /\ OrdersShown
    /\ Len(statusFilter) > 0
    /\ queryValue = <<>> /\ dateFilter = <<>> /\ productFilter = <<>>
    /\ \E i \in DOMAIN filteredOrders :
           filteredOrders[i].displayFinancialStatus = <<sPAID>>
    /\ \E i \in DOMAIN orders :
           /\ orders[i].displayFinancialStatus = <<>>
           /\ orders[i].id \notin VisibleIds(filteredOrders)
    /\ \E i \in DOMAIN orders :
           /\ orders[i].displayFinancialStatus = <<sVOIDED>>
           /\ orders[i].id \notin VisibleIds(filteredOrders)

\* C15: for every sort option, adjacent visible rows are non-decreasing in
\* the key's projection under asc and non-increasing under desc.
C15_SortedByKey ==
    /\ OrdersShown => OrdersInKeyOrder(filteredOrders, sortSelected)
    /\ CustomersShown =>
           CustomersInKeyOrder(filteredCustomers, custSortSelected)

\* Sorted by total, ascending, under an active filter: 9.5 comes before 10.0
\* although "10.0" is the smaller text, and the batch had them the other way.
C15_Witness ==
    /\ OrdersShown
    /\ sortSelected = <<SortOption(sTotal, sAsc)>>
    /\ ~OrderFiltersAbsent
    /\ Len(filteredOrders) >= 2
    /\ OrderKeyLess(sTotal, filteredOrders[1], filteredOrders[2])
    /\ StrLess(OrderAmountText(filteredOrders[2]),
               OrderAmountText(filteredOrders[1]))
    /\ PositionOf(filteredOrders[1].id, orders)
           > PositionOf(filteredOrders[2].id, orders)

\* A nullable string with its default, the empty string.
OrEmpty(opt) == IF opt = <<>> THEN <<>> ELSE opt[1]

\* The composite string of an order: display name followed by the customer's
\* full name; of a customer: full name followed by email.
OrderComposite(o) ==
    o.name \o (IF o.customer = <<>> THEN <<>>
               ELSE OrEmpty(o.customer[1].firstName) \o <<" ">>
                        \o OrEmpty(o.customer[1].lastName))

CustomerComposite(c) ==
    OrEmpty(c.firstName) \o <<" ">> \o OrEmpty(c.lastName) \o OrEmpty(c.email)

\* C14: a non-empty free-text query keeps a record iff the lower-cased query
\* is a substring of the record's lower-cased composite string; an empty
\* query keeps every record.
C14_CompositeSearch ==
    /\ (OrdersShown /\ statusFilter = <<>> /\ dateFilter = <<>>
            /\ productFilter = <<>>) =>
           VisibleIds(filteredOrders) =
               { orders[i].id : i \in
                   { j \in DOMAIN orders :
                       \/ queryValue = <<>>
                       \/ Includes(ToLowerCase(OrderComposite(orders[j])),
                                   ToLowerCase(queryValue)) } }
    /\ (CustomersShown /\ tagFilter = <<>> /\ countryFilter = <<>>
            /\ itemsOrderCount = <<>> /\ lastOrderDateFilter = <<>>) =>
           VisibleIds(filteredCustomers) =
               { customers[i].id : i \in
                   { j \in DOMAIN customers :
                       \/ custQueryValue = <<>>
                       \/ Includes(ToLowerCase(
                                       CustomerComposite(customers[j])),
                                   ToLowerCase(custQueryValue)) } }

\* The elements of a sequence.
Range(q) == { q[i] : i \in DOMAIN q }

\* The loader has run to its end.
HealthDone == healthPc \in {"returned", "raised"}

\* C16: filtering, sorting and metric computation never raise on a record
\* whose optional fields are absent; a result is always produced.
C16_NeverRaises == healthPc # "raised"

\* The email address the customer was fetched with, if it has one.
HasEmailAddress(c) ==
    /\ c.defaultEmailAddress # <<>>
    /\ c.defaultEmailAddress[1].emailAddress # <<>>
    /\ c.defaultEmailAddress[1].emailAddress[1] # <<>>

\* C17: customersNoEmail is the number of fetched customers with no email or
\* an empty one; a customer with an email is not counted.
C17_NoEmailCount ==
    healthPc = "returned" =>
        healthResult.metrics.customersNoEmail =
            Cardinality({ i \in DOMAIN healthData.customers :
                            ~HasEmailAddress(healthData.customers[i]) })

\* The lifetime amount spent of a fetched customer, in hundredths.
AmountSpent(c) == ParseFloat(c.amountSpent.amount)[1]

RECURSIVE AmountSpentSum(_, _)
AmountSpentSum(cs, n) ==
    IF n = 0 THEN 0 ELSE AmountSpentSum(cs, n - 1) + AmountSpent(cs[n])

\* The customers of the batch that the at-risk list is to hold.
AtRiskIds(cs, now) ==
    { cs[i].id : i \in
        { j \in DOMAIN cs :
            /\ cs[j].lastOrder # <<>>
            /\ AmountSpent(cs[j]) * Len(cs) > AmountSpentSum(cs, Len(cs))
            /\ GetTime(cs[j].lastOrder[1].processedAt)
                   < now - SixtyDays * DayTicks } }

\* C18: the at-risk high value list holds every fetched customer whose
\* lifetime amount spent is above the batch average and whose last order is
\* older than 60 days, and no other customer.
C18_AtRiskHighValue ==
    HealthDone =>
        /\ VisibleIds(healthLocals.atRiskHighValue) =
               AtRiskIds(healthData.customers, healthNow)
        /\ healthPc = "returned" =>
               VisibleIds(healthResult.lists.atRiskHighValue) =
                   AtRiskIds(healthData.customers, healthNow)

\* C19: the average spend is the sum of the lifetime amounts spent divided by
\* the number of customers, and 0 for an empty batch.
C19_AverageSpend ==
    HealthDone =>
        /\ healthLocals.avgSpent.num # <<>>
        /\ IF Len(healthData.customers) = 0
           THEN healthLocals.avgSpent.num[1] = 0
           ELSE healthLocals.avgSpent.num[1] * Len(healthData.customers) =
                    AmountSpentSum(healthData.customers,
                                   Len(healthData.customers))
                        * healthLocals.avgSpent.den

\* The recent orders of c that are refunded, fully or partially.
RefundedOrders(c) ==
    { k \in DOMAIN c.orders :
        c.orders[k] \in { <<sREFUNDED>>, <<sPARTIALLY_REFUNDED>> } }

\* C20: the refund-heavy list holds exactly the customers with more than one
\* REFUNDED or PARTIALLY_REFUNDED order among their recent orders; a customer
\* with exactly one such order is not listed.
C20_RefundHeavy ==
    HealthDone =>
        /\ \A i \in DOMAIN healthData.customers :
               healthData.customers[i].id
                       \in VisibleIds(healthLocals.refundHeavyCustomers)
                   <=> Cardinality(RefundedOrders(healthData.customers[i])) > 1
        /\ healthPc = "returned" =>
               VisibleIds(healthResult.lists.refundHeavy) =
                   VisibleIds(healthLocals.refundHeavyCustomers)

\* The loader has returned: a customer with one full and one partial refund
\* is listed, a customer with exactly one refund and one with none are not.
C20_Witness ==
    /\ healthPc = "returned"
    /\ \E i \in DOMAIN healthResult.lists.refundHeavy :
       \E j \in DOMAIN healthData.customers :
           /\ healthData.customers[j].id = healthResult.lists.refundHeavy[i].id
           /\ <<sREFUNDED>> \in Range(healthData.customers[j].orders)
           /\ <<sPARTIALLY_REFUNDED>> \in Range(healthData.customers[j].orders)
           /\ healthResult.lists.refundHeavy[i].refunds = 2
    /\ \E j \in DOMAIN healthData.customers :
           /\ Cardinality(RefundedOrders(healthData.customers[j])) = 1
           /\ healthData.customers[j].id
                  \notin VisibleIds(healthResult.lists.refundHeavy)
    /\ \E j \in DOMAIN healthData.customers :
           Cardinality(RefundedOrders(healthData.customers[j])) = 0

\* The customers of the batch without last order, or whose last order was
\* processed strictly earlier than 90 days before now.
Inactive90(cs, now) ==
    { j \in DOMAIN cs :
        \/ cs[j].lastOrder = <<>>
        \/ GetTime(cs[j].lastOrder[1].processedAt)
               < now - NinetyDays * DayTicks }

\* C21: the inactive-90-days count is the number of fetched customers that
\* have no last order or whose last order was processed strictly earlier
\* than 90 days before now.
C21_InactiveCount90 ==
    HealthDone =>
        /\ Len(healthLocals.inactiveCustomers90) =
               Cardinality(Inactive90(healthData.customers, healthNow))
        /\ healthPc = "returned" =>
               healthResult.metrics.inactiveCount90 =
                   Cardinality(Inactive90(healthData.customers, healthNow))

\* The loader has returned: a customer without last order is counted, one
\* whose last order was processed exactly 90 days before now is not, nor is
\* one with a later last order.
C21_Witness ==
    /\ healthPc = "returned"
    /\ healthResult.metrics.inactiveCount90 = 1
    /\ \E j \in DOMAIN healthData.customers :
           healthData.customers[j].lastOrder = <<>>
    /\ \E j \in DOMAIN healthData.customers :
           /\ healthData.customers[j].lastOrder # <<>>
           /\ GetTime(healthData.customers[j].lastOrder[1].processedAt)
                  = healthNow - NinetyDays * DayTicks
    /\ \E j \in DOMAIN healthData.customers :
           /\ healthData.customers[j].lastOrder # <<>>
           /\ GetTime(healthData.customers[j].lastOrder[1].processedAt)
                  > healthNow - NinetyDays * DayTicks

\* The batch a finished loader has handed to its page, if it has.
YieldsEmptyBatchAndError ==
    \/ /\ route = "orders" /\ loaderPc = "returned"
       /\ loaderData.orders = <<>> /\ "error" \in DOMAIN loaderData
    \/ /\ route = "customers" /\ loaderPc = "returned"
       /\ loaderData.customers = <<>> /\ "error" \in DOMAIN loaderData
    \/ /\ route = "health" /\ healthPc = "returned"
       /\ healthData.customers = <<>> /\ healthData.orders = <<>>
       /\ "error" \in DOMAIN healthResult

\* C22: when the upstream fetch of a route fails (the request rejects, or the
\* response carries no data), the route's loader yields an empty batch
\* together with an error indicator instead of raising.
C22_FetchFailureSurfaced ==
    FetchFailed(response) =>
        /\ loaderPc # "raised"
        /\ healthPc # "raised"
        /\ YieldsEmptyBatchAndError

\* A reader of comma-separated values: fields are separated by commas and
\* records by line breaks; a field that starts with a double quote runs to
\* its closing double quote, commas and line breaks included, and holds a
\* double quote only written twice.

\* The double quote at j ends a run of an odd number of double quotes that
\* starts after the opening double quote at i: it closes the field.
ClosesField(t, i, j) ==
    /\ t[j] = "\""
    /\ (j = Len(t) \/ t[j + 1] # "\"")
    /\ LET k == CHOOSE m \in (i + 1)..j :
                    /\ \A n \in m..j : t[n] = "\""
                    /\ (m = i + 1 \/ t[m - 1] # "\"")
       IN  (j - k + 1) % 2 = 1

\* The text of a quoted field, each doubled double quote read as one.
RECURSIVE Unescape(_)
Unescape(f) ==
    IF f = <<>> THEN <<>>
    ELSE IF f[1] = "\"" THEN <<"\"">> \o Unescape(SubSeq(f, 3, Len(f)))
    ELSE <<f[1]>> \o Unescape(Tail(f))

CsvBad == [ok |-> FALSE, value |-> <<>>, next |-> 0]

\* The field of t that starts at position i, and the position after it.
CsvField(t, i) ==
    IF i <= Len(t) /\ t[i] = "\""
    THEN IF \E j \in (i + 1)..Len(t) : ClosesField(t, i, j)
         THEN LET j == CHOOSE m \in (i + 1)..Len(t) :
                           /\ ClosesField(t, i, m)
                           /\ \A n \in (i + 1)..(m - 1) : ~ClosesField(t, i, n)
              IN  IF j < Len(t) /\ t[j + 1] \notin {",", "\n"} THEN CsvBad
                  ELSE [ok |-> TRUE, value |-> Unescape(SubSeq(t, i + 1, j - 1)),
                        next |-> j + 1]
         ELSE CsvBad
    ELSE LET e == CHOOSE m \in i..(Len(t) + 1) :
                      /\ m = Len(t) + 1 \/ t[m] \in {",", "\n"}
                      /\ \A n \in i..(m - 1) : t[n] \notin {",", "\n"}
         IN  IF \E n \in i..(e - 1) : t[n] = "\"" THEN CsvBad
             ELSE [ok |-> TRUE, value |-> SubSeq(t, i, e - 1), next |-> e]

\* The record of t that starts at position i, after the fields read so far.
RECURSIVE CsvRecord(_, _, _)
CsvRecord(t, i, fields) ==
    IF ~CsvField(t, i).ok THEN CsvBad
    ELSE IF CsvField(t, i).next <= Len(t) /\ t[CsvField(t, i).next] = ","
    THEN CsvRecord(t, CsvField(t, i).next + 1,
                   Append(fields, CsvField(t, i).value))
    ELSE [ok |-> TRUE, value |-> Append(fields, CsvField(t, i).value),
          next |-> CsvField(t, i).next]

\* The records of t from position i on, after the records read so far.
RECURSIVE CsvRead(_, _, _)
CsvRead(t, i, recs) ==
    IF ~CsvRecord(t, i, <<>>).ok THEN [ok |-> FALSE, rows |-> <<>>]
    ELSE IF CsvRecord(t, i, <<>>).next > Len(t)
    THEN [ok |-> TRUE, rows |-> Append(recs, CsvRecord(t, i, <<>>).value)]
    ELSE CsvRead(t, CsvRecord(t, i, <<>>).next + 1,
                 Append(recs, CsvRecord(t, i, <<>>).value))

\* The fields of a line that are enclosed in double quotes: the line starts
\* and ends with one.
Enclosed(line) ==
    Len(line) >= 2 /\ line[1] = "\"" /\ line[Len(line)] = "\""

\* C23: the export is the header row followed by exactly one row per visible
\* customer, in the order of the visible list, each row having exactly eight
\* values each enclosed in double quotes, also when a value holds a double
\* quote, a comma or a line break.
C23_ExportRows ==
    [][csvContent' # csvContent =>
          /\ CsvRead(csvContent', 1, <<>>).ok
          /\ CsvRead(csvContent', 1, <<>>).rows =
                 <<headers>> \o [i \in DOMAIN filteredCustomers |->
                                    ExportRow(filteredCustomers[i])]
          /\ \A i \in DOMAIN filteredCustomers :
                 Enclosed(ExportLine(ExportRow(filteredCustomers[i])))]_vars

\* C24: computing the visible list never changes the fetched batch: after
\* any filter or sort change the batch has the same records in the same
\* order as before.
C24_BatchUnchanged ==
    [][orders' = orders /\ customers' = customers]_vars

\* The whole batch is visible in another order than the batch has: the sort
\* by order name, ascending, has moved rows of the visible list.
C24_Witness ==
    /\ OrdersShown
    /\ OrderFiltersAbsent
    /\ sortSelected = <<SortOption(sOrder, sAsc)>>
    /\ Len(orders) = MaxBatch
    /\ Len(filteredOrders) = MaxBatch
    /\ filteredOrders # orders
    /\ StrLess(orders[2].name, orders[1].name)

\* The full name with an absent part taken as the empty string.
NameWithDefaults(first, last) == OrEmpty(first) \o <<" ">> \o OrEmpty(last)

\* C25: a record whose customer lacks the first or the last name is matched
\* by the free-text query only through the name part that is present, or
\* through its email (customer) or display name (order): the absent part
\* contributes an empty string.
C25_AbsentNamePart ==
    /\ (CustomersShown /\ custQueryValue # <<>>) =>
           \A i \in DOMAIN filteredCustomers :
               (filteredCustomers[i].firstName = <<>>
                    \/ filteredCustomers[i].lastName = <<>>) =>
                   \/ Includes(ToLowerCase(NameWithDefaults(
                                   filteredCustomers[i].firstName,
                                   filteredCustomers[i].lastName)),
                               ToLowerCase(custQueryValue))
                   \/ Includes(ToLowerCase(OrEmpty(filteredCustomers[i].email)),
                               ToLowerCase(custQueryValue))
    /\ (OrdersShown /\ queryValue # <<>>) =>
           \A i \in DOMAIN filteredOrders :
               (/\ filteredOrders[i].customer # <<>>
                /\ \/ filteredOrders[i].customer[1].firstName = <<>>
                   \/ filteredOrders[i].customer[1].lastName = <<>>) =>
                   \/ Includes(ToLowerCase(NameWithDefaults(
                                   filteredOrders[i].customer[1].firstName,
                                   filteredOrders[i].customer[1].lastName)),
                               ToLowerCase(queryValue))
                   \/ Includes(ToLowerCase(filteredOrders[i].name),
                               ToLowerCase(queryValue))

\* C26: in both dashboards Clear All leaves the search text and every field
\* filter empty, so that the visible list then holds every record of the
\* batch, and it leaves the sort selection unchanged.
C26_ClearAll ==
    [][/\ OrderHandleClearAll =>
              /\ queryValue' = <<>> /\ statusFilter' = <<>>
              /\ dateFilter' = <<>> /\ productFilter' = <<>>
              /\ IsPermutation(filteredOrders', orders')
              /\ sortSelected' = sortSelected
       /\ CustomerHandleClearAll =>
              /\ custQueryValue' = <<>> /\ tagFilter' = <<>>
              /\ countryFilter' = <<>> /\ itemsOrderCount' = <<>>
              /\ lastOrderDateFilter' = <<>>
              /\ IsPermutation(filteredCustomers', customers')
              /\ custSortSelected' = custSortSelected]_vars

\* The Customers page with everything cleared and a sort selection other
\* than the initial one: the whole batch is visible, by name downwards.
C26_Witness ==
    /\ CustomersShown
    /\ CustomerFiltersAbsent
    /\ custSortSelected = <<SortOption(sName, sDesc)>>
    /\ Len(customers) = MaxBatch
    /\ IsPermutation(filteredCustomers, customers)
    /\ cards.totalCustomers = MaxBatch

\* C27: on the products page the modal is open iff a product is selected,
\* and when open the selected product is the one whose details were opened
\* most recently.
C27_ModalIffSelected ==
    route = "products" =>
        /\ active <=> selectedProduct # <<>>
        /\ active => selectedProduct = openedProduct

\* The modal shows the last product of a full page of products.
C27_Witness ==
    /\ route = "products"
    /\ Len(products) = MaxBatch
    /\ active
    /\ selectedProduct = <<products[MaxBatch]>>
    /\ openedProduct = <<products[MaxBatch]>>

\* C28: on the storefront profile page the loading flag starts true,
\* eventually becomes false for every outcome of the single profile fetch,
\* and once false never becomes true again.
C28_LoadingEnds ==
    /\ loading = TRUE
    /\ <>(loading = FALSE)
    /\ [][~loading => ~loading']_vars

\* The body was no JSON: response.json() threw, and loading has ended with
\* the message of the error shown.
C28_Witness ==
    /\ route = "profile"
    /\ profilePc = "done"
    /\ response.kind = "invalid"
    /\ ~loading
    /\ errorMsg = <<sUnexpectedToken>>

\* errorMsg is set: the page takes its `if (errorMsg)` branch.
ErrorMsgSet == errorMsg # <<>> /\ errorMsg[1] # <<>>

\* C29: on the storefront profile page, once loading has finished exactly
\* one of profile and errorMsg is set: never both, and never neither (the
\* Profile Unavailable view).
C29_ProfileOrError ==
    (route = "profile" /\ ~loading) =>
        /\ ~(profile # <<>> /\ ErrorMsgSet)
        /\ profile # <<>> \/ ErrorMsgSet

\* The body carried both errors and a customer: loading has ended with the
\* errors shown and no profile.
C29_Witness ==
    /\ route = "profile"
    /\ ~loading
    /\ response.kind = "json"
    /\ response.body # <<>>
    /\ response.body[1].errors # <<>>
    /\ response.body[1].data # <<>>
    /\ response.body[1].data[1].customer # <<>>
    /\ profile = <<>>
    /\ ErrorMsgSet

\* C30: every entry of the refund-heavy list reports a refund count of at
\* least 2, equal to the number of REFUNDED or PARTIALLY_REFUNDED recent
\* orders its customer was selected by.
C30_RefundCount ==
    healthPc = "returned" =>
        \A i \in DOMAIN healthResult.lists.refundHeavy :
            /\ healthResult.lists.refundHeavy[i].refunds >= 2
            /\ \E j \in DOMAIN healthData.customers :
                   /\ healthData.customers[j].id =
                          healthResult.lists.refundHeavy[i].id
                   /\ healthResult.lists.refundHeavy[i].refunds =
                          Cardinality(RefundedOrders(healthData.customers[j]))

\* Two entries: a customer with a full and a partial refund among three
\* recent orders, and one with two partial refunds.
C30_Witness ==
    /\ healthPc = "returned"
    /\ Len(healthResult.lists.refundHeavy) = 2
    /\ \A i \in DOMAIN healthResult.lists.refundHeavy :
           healthResult.lists.refundHeavy[i].refunds = 2
    /\ \E j \in DOMAIN healthData.customers :
           /\ Len(healthData.customers[j].orders) = 3
           /\ <<sPAID>> \in Range(healthData.customers[j].orders)
           /\ healthData.customers[j].id
                  \in VisibleIds(healthResult.lists.refundHeavy)
    /\ \E j \in DOMAIN healthData.customers :
           /\ healthData.customers[j].orders =
                  <<<<sPARTIALLY_REFUNDED>>, <<sPARTIALLY_REFUNDED>>>>
           /\ healthData.customers[j].id
                  \in VisibleIds(healthResult.lists.refundHeavy)

====
